---------------------------- MODULE Spec2Model ----------------------------
(***************************************************************************)
(* Model of the assessment pipeline of actual_code: the response extractor *)
(* (utils/json_parser.py), the QA validator's approval decision, the       *)
(* specialised agents' decode step and the orchestrator's run.             *)
(*                                                                         *)
(* A text is a sequence of lexical units.  The units are the pieces the    *)
(* code looks at: braces and brackets, commas, whitespace, the two fence   *)
(* markers, object keys (a quoted name with its colon), scalar literals,   *)
(* a string literal that holds a closing brace, and prose.                 *)
(***************************************************************************)
EXTENDS Integers, Sequences, FiniteSets, TLC

VARIABLES
    \* extract_json_from_response called on its own
    response,           \* the text handed to the extractor
    embedding,          \* how that text was put together (object, prose, fences)
    extract_out,        \* what the call gave back
    \* QAValidatorAgent.validate_problem called on its own
    quality_threshold,  \* self.quality_threshold
    validator_out,      \* the (is_approved, validation_result) pair, or the raise
    \* AssessmentOrchestrator.generate_assessment
    pc,                 \* the stage the run is in
    repo_data,          \* the repository dataset the run works on
    repository,         \* the dataset's repository metadata (repo_data['repository'])
    task,               \* the four analysis tasks handed to asyncio.gather
    results,            \* what each analysis task returned
    running,            \* the task that holds the event loop's thread
    analysis_report,    \* the synthesized report
    problem,            \* the problem of the creation call
    final_result,       \* what generate_assessment returned
    failure,            \* the exception that ended the run
    trace,              \* the agent calls of the run, in order
    \* _synthesize_single_report's suggestion ranking called on its own
    pr_suggested,       \* suggested_problems of the PR analysis
    issue_suggested,    \* suggested_problems of the issue analysis
    ranked_suggestions, \* ranked_suggestions of the synthesized report
    ranked_done,        \* whether the ranking has run
    \* successive runs of one orchestrator, with its performance monitor
    performance,        \* self.performance: metrics and operation_counts
    clock,              \* time.time()
    timed_pc,           \* the stage the current run is in
    runs,               \* the runs started so far
    returned,           \* the results returned so far, each as it was at its return
    \* ProblemCreatorAgent.create_problem called on its own
    creator_call,       \* the report it was given, the mode it took, what it gave back
    \* A2AProtocol, the notification log, used on its own
    message_history,    \* self.message_history
    conversation_index, \* self.conversation_index
    next_message_id,    \* stands for the fresh uuid of the next message
    a2a_out,            \* the last call made on the protocol and what it gave back
    \* two runs of generate_assessment side by side, each on a log of its own
    twin,               \* the two runs: stage, report, problem, result, log
    \* BaseGeminiAgent.run called on its own, with its monitor and the log
    last_run,           \* the agent's monitor, and the last call with what it gave back
    \* PerformanceMonitor's timers used on their own
    timing,             \* the timer calls made, in order, and the monitor before the last
    \* run_assessment, the entry point of the deployment
    entry,              \* what run_assessment gave back
    \* DependencyAnalyzerAgent.analyze up to its prompt, called on its own
    prompt,             \* the dataset's dependency listing and readme, and the prompt built
    \* _run_pr_analyzer and PRAnalyzerAgent.analyze up to its prompt
    pr_call,            \* the dataset, what the orchestrator shows and what the prompt holds
    \* orchestrators made and run over time, all writing to the one log
    isolation,          \* the second, the orchestrators, their runs and the log
    \* the web server: sessions, their run_generation threads, sys.stdout
    web                 \* sys.stdout, the threads, active_sessions, the events emitted

extract_vars  == <<response, embedding, extract_out>>
validate_vars == <<quality_threshold, validator_out>>
run_vars == <<pc, repo_data, repository, task, results, running, analysis_report, problem,
              final_result, failure, trace>>
rank_vars == <<pr_suggested, issue_suggested, ranked_suggestions, ranked_done>>
\* the variables of the functions called on their own, other than the
\* extractor and the validator
timed_vars == <<performance, clock, timed_pc, runs, returned>>
create_vars == <<creator_call>>
a2a_vars == <<message_history, conversation_index, next_message_id, a2a_out>>
\* the variables of the later sections
twin_vars == <<twin>>
agent_vars == <<last_run>>
timing_vars == <<timing>>
entry_vars == <<entry>>
prompt_vars == <<prompt>>
pr_vars == <<pr_call>>
\* the variables of the last sections
isolation_vars == <<isolation>>
web_vars == <<web>>
last_vars == <<pr_vars, isolation_vars, web_vars>>
later_vars == <<twin_vars, agent_vars, timing_vars, entry_vars, prompt_vars, last_vars>>
more_vars == <<a2a_vars, later_vars>>
pure_vars == <<rank_vars, timed_vars, create_vars, more_vars>>
\* all variables but those of one section
but_later == <<extract_vars, validate_vars, run_vars, rank_vars, timed_vars, create_vars,
               a2a_vars>>
but_a2a == <<extract_vars, validate_vars, run_vars, rank_vars, timed_vars, create_vars,
             later_vars>>
but_twin == <<but_later, agent_vars, timing_vars, entry_vars, prompt_vars, last_vars>>
\* all but the agent's call, the log it writes to and the clock
but_agent == <<extract_vars, validate_vars, run_vars, rank_vars, create_vars,
               performance, timed_pc, runs, returned, a2a_out, twin_vars, timing_vars,
               entry_vars, prompt_vars, last_vars>>
\* all but the monitor, the clock and the timer calls
but_timing == <<extract_vars, validate_vars, run_vars, rank_vars, create_vars,
                timed_pc, runs, returned, a2a_vars, twin_vars, agent_vars, entry_vars,
                prompt_vars, last_vars>>
\* all but what run_assessment gave back
but_entry == <<extract_vars, validate_vars, run_vars, rank_vars, timed_vars, create_vars,
               a2a_vars, twin_vars, agent_vars, timing_vars, prompt_vars, last_vars>>
\* all but the prompt of the dependency analyser
but_prompt == <<but_later, twin_vars, agent_vars, timing_vars, entry_vars, last_vars>>
\* all but the variables of the last sections
but_last == <<but_later, twin_vars, agent_vars, timing_vars, entry_vars, prompt_vars>>
but_pr == <<but_last, isolation_vars, web_vars>>
but_isolation == <<but_last, pr_vars, web_vars>>
but_web == <<but_last, pr_vars, isolation_vars>>
vars == <<extract_vars, validate_vars, run_vars, pure_vars>>

(***************************************************************************)
(* Lexical units                                                           *)
(***************************************************************************)
LBrace == "{"
RBrace == "}"
LBrack == "["
RBrack == "]"
Comma  == ","
Ws     == " "
\* the triple-backquote marker, and the same marker followed by json
\* (FenceJson begins with the characters of Fence)
Fence     == "fence"
FenceJson == "fence_json"
\* the string literal "}" : one JSON value, three characters, the middle one a brace
StrBrace  == "S}"
\* what is left of StrBrace when the text is cut right after its brace
StrCut    == "S}cut"
\* a word of prose: no JSON value, no brace, no fence
Word      == "w"

Keys == {"k:", "parse_failed:", "error:", "raw_response:",
         \* ValidationResult
         "is_approved:", "overall_score:", "scores:", "issues:", "suggestions:",
         "feedback:", "feasibility:", "quality:", "technical:", "educational:",
         "strengths:", "weaknesses:", "improvements:",
         \* ProblemSpec
         "title:", "description:",
         \* the analysers' records
         "architecture:", "code_quality:", "opportunities:",
         "patterns:", "insights:", "suggested_problems:",
         "categories:", "priority_issues:", "problem_patterns:",
         "tech_stack:", "dependency_health:", "integration_opportunities:"}

NumberToks == {"0", "1", "50", "84", "85", "100"}
\* string literals: the messages the agents write, titles, any other string
StringToks == {"str", "P1", "P2", "raw", "Failed to extract JSON",
               "Unknown parsing error", "Error Creating Problem",
               "Failed to generate valid problem",
               "Failed to parse validation response", "Validation error",
               "Unable to analyze", "Unknown", "medium", StrBrace}
Scalars == NumberToks \cup {"true", "false", "null"} \cup StringToks

\* None, the value Python returns for "no result"; no JSON text parses to it
None == <<"None">>

\* the member of a one-member set: Only({f(v) : v \in {x}}) is f of the value
\* of x, with x computed once
Only(S) == CHOOSE r \in S : TRUE

Min(a, b) == IF a <= b THEN a ELSE b

(***************************************************************************)
(* json.loads                                                              *)
(***************************************************************************)
\* whitespace between lexical units is insignificant to the decoder
NoWs(s) == SelectSeq(s, LAMBDA t : t # Ws)

RECURSIVE ValueEnd(_, _), ElemsEnd(_, _, _), ElemsAfter(_, _), MembersEnd(_, _, _), MembersAfter(_, _)
\* index just after the JSON value that starts at s[i]; 0 when there is none
ValueEnd(s, i) ==
    IF i > Len(s) THEN 0
    ELSE IF s[i] \in Scalars THEN i + 1
    ELSE IF s[i] = LBrack THEN ElemsEnd(s, i + 1, TRUE)
    ELSE IF s[i] = LBrace THEN MembersEnd(s, i + 1, TRUE)
    ELSE 0

ElemsEnd(s, i, first) ==
    IF i > Len(s) THEN 0
    ELSE IF first /\ s[i] = RBrack THEN i + 1
    ELSE Only({ElemsAfter(s, e) : e \in {ValueEnd(s, i)}})

\* the rest of a list after an element that ends before s[e]
ElemsAfter(s, e) ==
    IF e = 0 \/ e > Len(s) THEN 0
    ELSE IF s[e] = RBrack THEN e + 1
    ELSE IF s[e] = Comma THEN ElemsEnd(s, e + 1, FALSE)
    ELSE 0

MembersEnd(s, i, first) ==
    IF i > Len(s) THEN 0
    ELSE IF first /\ s[i] = RBrace THEN i + 1
    ELSE IF s[i] \notin Keys THEN 0
    ELSE Only({MembersAfter(s, e) : e \in {ValueEnd(s, i + 1)}})

\* the rest of an object after a member that ends before s[e]
MembersAfter(s, e) ==
    IF e = 0 \/ e > Len(s) THEN 0
    ELSE IF s[e] = RBrace THEN e + 1
    ELSE IF s[e] = Comma THEN MembersEnd(s, e + 1, FALSE)
    ELSE 0

\* the decoder on a text t without whitespace
Decode(t) ==
    IF ValueEnd(t, 1) = Len(t) + 1
    THEN [ok |-> TRUE, val |-> IF t = <<"null">> THEN None ELSE t]
    ELSE [ok |-> FALSE, val |-> None]

\* json.loads(s): the decoded value (its units without whitespace), or the
\* JSONDecodeError it raises (ok = FALSE)
json_loads(s) == Only({Decode(t) : t \in {NoWs(s)}})


(***************************************************************************)
(* extract_json_from_response                                              *)
(***************************************************************************)
\* smallest index of s from `from` on whose unit is in set T; 0 when none
FirstIn(s, T, from) ==
    LET I == {i \in from..Len(s) : s[i] \in T} IN
    IF I = {} THEN 0 ELSE CHOOSE i \in I : \A j \in I : i <= j

\* str.strip(): leading and trailing whitespace removed
Strip(s) ==
    LET I == {i \in 1..Len(s) : s[i] # Ws} IN
    IF I = {} THEN <<>>
    ELSE SubSeq(s, CHOOSE i \in I : \A j \in I : i <= j,
                   CHOOSE i \in I : \A j \in I : i >= j)

\* re.search(opening \s*(.*?)\s* closing): the first opening marker, the lazy
\* group up to the nearest following triple backquote (which FenceJson also
\* begins with), whitespace around the group left out
FenceMatch(s, opening) ==
    LET i == FirstIn(s, {opening}, 1)
        j == IF i = 0 THEN 0 ELSE FirstIn(s, {Fence, FenceJson}, i + 1)
    IN  IF j = 0 THEN [found |-> FALSE, group |-> <<>>]
        ELSE [found |-> TRUE, group |-> Strip(SubSeq(s, i + 1, j - 1))]

\* Step 1: the text stripped, then the content of a fenced block if there is one
StripFences(text) ==
    LET json_str == Strip(text)
        has(t) == \E i \in 1..Len(json_str) : json_str[i] = t
    IN  IF has(FenceJson)
        THEN LET m == FenceMatch(json_str, FenceJson) IN
             IF m.found THEN Strip(m.group) ELSE json_str
        ELSE IF has(Fence)
        THEN LET m == FenceMatch(json_str, Fence) IN
             IF m.found THEN Strip(m.group) ELSE json_str
        ELSE json_str

\* C10 mutant: the text before the object is kept
DropBeforeBraceKept(json_str) == json_str

\* Fix 1: everything before the first opening brace is dropped
DropBeforeBrace(json_str) ==
    LET start_idx == FirstIn(json_str, {LBrace}, 1) IN
    IF start_idx = 0 THEN json_str
    ELSE SubSeq(json_str, start_idx, Len(json_str))

\* the units that hold a closing brace character
Closers == {RBrace, StrBrace}

\* brace_count after the first i units
BraceCount(s, i) ==
    Cardinality({j \in 1..i : s[j] = LBrace})
      - Cardinality({j \in 1..i : s[j] \in Closers})

\* C11 mutant: the loop stops at the first return to depth zero
FirstValidPos(s) ==
    LET Z == {i \in 1..Len(s) : s[i] \in Closers /\ BraceCount(s, i) = 0} IN
    IF Z = {} THEN 0 ELSE CHOOSE i \in Z : \A j \in Z : i <= j

\* the unit at which last_valid_pos ends up after the loop: the code overwrites
\* it every time brace_count comes back to zero, so it is the last such unit
LastValidPos(s) ==
    LET Z == {i \in 1..Len(s) : s[i] \in Closers /\ BraceCount(s, i) = 0} IN
    IF Z = {} THEN 0 ELSE CHOOSE i \in Z : \A j \in Z : i >= j

\* C12 mutant: the text is never cut
CutAtLastValidNever(s) == s

\* Fix 2: json_str[:last_valid_pos] when 0 < last_valid_pos < len(json_str).
\* A position inside the string literal StrBrace lies before its closing
\* quote, so the cut is always taken there and leaves a broken literal.
CutAtLastValid(s) ==
    LET p == LastValidPos(s) IN
    IF p = 0 THEN s
    ELSE IF s[p] = StrBrace THEN SubSeq(s, 1, p - 1) \o <<StrCut>>
    ELSE IF p < Len(s) THEN SubSeq(s, 1, p)
    ELSE s

\* the text handed to the second json.loads
RecoveryCandidate(json_str) == CutAtLastValid(DropBeforeBrace(json_str))

\* C9 mutant: the second JSONDecodeError is not caught
SecondParseFailureRaised(json_str) == [kind |-> "raise", val |-> None]

\* the innermost except clause: "If still failing, return None"
SecondParseFailure(json_str) == [kind |-> "return", val |-> None]

\* the whole function: what it returns, or that it raises
extract_json_from_response(text) ==
    LET json_str == StripFences(text)
        first == json_loads(json_str)
    IN  IF first.ok THEN [kind |-> "return", val |-> first.val]
        ELSE LET second == json_loads(RecoveryCandidate(json_str)) IN
             IF second.ok THEN [kind |-> "return", val |-> second.val]
             ELSE SecondParseFailure(json_str)

\* raw_response[:1000] of create_default_response
RawResponseLimit == 1000

\* create_default_response(error_msg, raw_response): the failure record
create_default_response(error_msg, raw_response) ==
    [error |-> error_msg,
     raw_response |-> SubSeq(raw_response, 1, Min(Len(raw_response), RawResponseLimit)),
     parse_failed |-> TRUE]


(***************************************************************************)
(* Python values: truthiness, dict.get, item assignment, comparison        *)
(***************************************************************************)
\* no value: what dict.get gives for a missing key before its default applies
Absent == <<>>

IsDict(v) == Len(v) > 0 /\ v[1] = LBrace

\* bool(v) is False for None, 0, false, the empty dict and the empty list
Falsy == {None, Absent, <<"null">>, <<"0">>, <<"false">>,
          <<LBrace, RBrace>>, <<LBrack, RBrack>>}
Truthy(v) == v \notin Falsy

\* nesting depth of the unit v[i] inside the value v
Depth(v, i) ==
    Cardinality({j \in 1..(i - 1) : v[j] \in {LBrace, LBrack}})
      - Cardinality({j \in 1..(i - 1) : v[j] \in {RBrace, RBrack}})

\* positions of the top-level key `key` of the dict v
KeyAt(v, key) == {i \in 1..Len(v) : v[i] = key /\ Depth(v, i) = 1}
LastOf(I) == CHOOSE i \in I : \A j \in I : i >= j

\* v.get(key): the value of the key (the last one decoded wins), or Absent
Get(v, key) ==
    IF KeyAt(v, key) = {} THEN Absent
    ELSE LET i == LastOf(KeyAt(v, key)) IN SubSeq(v, i + 1, ValueEnd(v, i + 1) - 1)

\* v.get(key, default)
GetOr(v, key, default) == IF KeyAt(v, key) = {} THEN default ELSE Get(v, key)

\* v[key] = val: the value replaced in place, or the key added at the end
SetKey(v, key, val) ==
    IF KeyAt(v, key) = {}
    THEN SubSeq(v, 1, Len(v) - 1)
           \o (IF Len(v) = 2 THEN <<>> ELSE <<Comma>>) \o <<key>> \o val \o <<RBrace>>
    ELSE LET i == LastOf(KeyAt(v, key)) IN
         SubSeq(v, 1, i) \o val \o SubSeq(v, ValueEnd(v, i + 1), Len(v))

\* the values Python compares with an int without raising TypeError
IsNumber(v) == Len(v) = 1 /\ v[1] \in NumberToks \cup {"true", "false"}
NumOf(v) ==
    CASE v[1] = "0" -> 0 [] v[1] = "1" -> 1 [] v[1] = "50" -> 50
      [] v[1] = "84" -> 84 [] v[1] = "85" -> 85 [] v[1] = "100" -> 100
      [] v[1] = "true" -> 1 [] v[1] = "false" -> 0

BoolTok(b) == IF b THEN <<"true">> ELSE <<"false">>

(***************************************************************************)
(* QAValidatorAgent.validate_problem                                       *)
(***************************************************************************)
\* what a call gives back: a return with its values, or a raise with its cause
Returned(approved, val) == [kind |-> "return", approved |-> approved, val |-> val, exc |-> "none"]
Raised(exc) == [kind |-> "raise", approved |-> FALSE, val |-> None, exc |-> exc]
NotCalled == [kind |-> "not run", approved |-> FALSE, val |-> None, exc |-> "none"]

\* the "failing validation" returned when the response cannot be used
FailingValidation(error_msg) ==
    <<LBrace, "is_approved:", "false", Comma, "overall_score:", "0", Comma,
      "scores:", LBrace, "feasibility:", "0", Comma, "quality:", "0", Comma,
                 "technical:", "0", Comma, "educational:", "0", RBrace, Comma,
      "issues:", LBrack, "Failed to parse validation response", RBrack, Comma,
      "suggestions:", LBrack, RBrack, Comma,
      "feedback:", LBrace, "strengths:", LBrack, RBrack, Comma,
                   "weaknesses:", LBrack, "Validation error", RBrack, Comma,
                   "improvements:", LBrack, RBrack, RBrace, Comma,
      "error:">> \o error_msg \o <<RBrace>>

\* C4 mutant: a strict comparison
IsApprovedStrict(overall_score, threshold) == overall_score > threshold

\* is_approved = overall_score >= self.quality_threshold
IsApproved(overall_score, threshold) == overall_score >= threshold

\* error_msg of the else branch
ErrorMsg(parsed) ==
    IF Truthy(parsed) THEN GetOr(parsed, "error:", <<"Unknown parsing error">>)
    ELSE <<"Failed to extract JSON">>

\* C6 mutant: the wrapper swallows the failure and hands back an empty text
run_swallowing(completion) == [raised |-> FALSE, text |-> IF completion.raised THEN <<>> ELSE completion.text]

\* BaseGeminiAgent.run from the completion call on: the text of the response,
\* or the exception of the client, which the except clause raises again
run(completion) ==
    IF completion.raised THEN [raised |-> TRUE, text |-> <<>>]
    ELSE [raised |-> FALSE, text |-> completion.text]

\* validate_problem given what the completion client does: it returns a text
\* or raises
validate_problem(threshold, client) ==
    LET completion == run(client) IN
    IF completion.raised THEN Raised("InvocationError")
    ELSE LET x == extract_json_from_response(completion.text)
             validation_result == x.val
         IN  IF x.kind = "raise" THEN Raised("JSONDecodeError")
             \* a truthy value that is no dict has no .get
             ELSE IF Truthy(validation_result) /\ ~IsDict(validation_result)
             THEN Raised("AttributeError")
             ELSE IF Truthy(validation_result)
                      /\ ~Truthy(Get(validation_result, "parse_failed:"))
             THEN LET score == GetOr(validation_result, "overall_score:", <<"0">>) IN
                  IF ~IsNumber(score) THEN Raised("TypeError")
                  ELSE LET is_approved == IsApproved(NumOf(score), threshold) IN
                       Returned(is_approved,
                                SetKey(validation_result, "is_approved:", BoolTok(is_approved)))
             ELSE Returned(FALSE, FailingValidation(ErrorMsg(validation_result)))

\* the threshold the module-level singleton is built with
DefaultQualityThreshold == 85

(***************************************************************************)
(* GitHubMCP._fetch_repo_metadata: the repository part of a fetched        *)
(* dataset.  A field of a dict is "absent" (no such key), "null" (None),   *)
(* a "text" taken from the repository, or the "default" a reader put in.   *)
(***************************************************************************)
\* d.get(key): None when the key is missing
DictGet(field) == IF field = "absent" THEN "null" ELSE field
\* d.get(key, default): the default only when the key is missing
DictGetOr(field, default) == IF field = "absent" THEN default ELSE field

\* {}: the value returned for a status other than 200, and what
\* repo_data.get('repository', {}) gives for a dataset without the key
NoRepository == [name |-> "absent", description |-> "absent", language |-> "absent"]

\* what api.github.com/repos/{owner}/{repo} answers: a status, and a body
\* whose description and language are null for a repository that has none
ApiStatuses == {"200", "404"}
ApiBodies == [name : {"text"}, description : {"absent", "null", "text"},
              language : {"null", "text"}]

\* name, description and language are copied with data.get(key), no default
_fetch_repo_metadata(status, data) ==
    IF status = "200"
    THEN [name |-> DictGet(data.name), description |-> DictGet(data.description),
          language |-> DictGet(data.language)]
    ELSE NoRepository

\* the "repository" member of the datasets fetch_repository_data returns
FetchedRepositories ==
    {_fetch_repo_metadata(status, data) : status \in ApiStatuses, data \in ApiBodies}

(***************************************************************************)
(* The specialised agents: analyze / create_problem from the completion on *)
(***************************************************************************)
AnalyzerOrder == <<"code_analyzer", "pr_analyzer", "issue_analyzer", "dependency_analyzer">>
Analyzers == {AnalyzerOrder[i] : i \in 1..Len(AnalyzerOrder)}

\* a dict or list value of a default record, its members left out
SomeDict == <<LBrace, "k:", "Unknown", RBrace>>
EmptyList == <<LBrack, RBrack>>

\* C13 mutant: the else branch returns the error alone
DefaultRecordBare(agent, error_msg) == <<LBrace, "error:">> \o error_msg \o <<RBrace>>

\* the top-level keys of the object each agent's system instruction asks the
\* model for (OUTPUT FORMAT)
SchemaKeys(agent) ==
    CASE agent = "code_analyzer" -> {"architecture:", "code_quality:", "opportunities:"}
      [] agent = "pr_analyzer" -> {"patterns:", "insights:", "suggested_problems:"}
      [] agent = "issue_analyzer" ->
           {"categories:", "priority_issues:", "problem_patterns:", "suggested_problems:"}
      [] agent = "dependency_analyzer" ->
           {"tech_stack:", "dependency_health:", "integration_opportunities:"}
      [] agent = "problem_creator" ->
           {"title:", "description:", "business_context:", "requirements:",
            "acceptance_criteria:", "starter_code:", "hints:", "estimated_time:",
            "difficulty:", "tech_stack:", "evaluation_rubric:"}
      [] agent = "qa_validator" ->
           {"is_approved:", "overall_score:", "scores:", "issues:", "suggestions:",
            "feedback:"}

\* the record an agent returns in its else branch
DefaultRecord(agent, error_msg) ==
    CASE agent = "code_analyzer" ->
           <<LBrace, "architecture:">> \o SomeDict \o <<Comma, "code_quality:">> \o SomeDict
             \o <<Comma, "opportunities:">> \o SomeDict
             \o <<Comma, "error:">> \o error_msg \o <<Comma, "raw_response:", "raw", RBrace>>
      [] agent = "pr_analyzer" ->
           <<LBrace, "patterns:">> \o SomeDict \o <<Comma, "insights:">> \o SomeDict
             \o <<Comma, "suggested_problems:">> \o EmptyList
             \o <<Comma, "error:">> \o error_msg \o <<RBrace>>
      [] agent = "issue_analyzer" ->
           <<LBrace, "categories:">> \o SomeDict \o <<Comma, "priority_issues:">> \o EmptyList
             \o <<Comma, "problem_patterns:">> \o EmptyList
             \o <<Comma, "suggested_problems:">> \o EmptyList
             \o <<Comma, "error:">> \o error_msg \o <<RBrace>>
      [] agent = "dependency_analyzer" ->
           <<LBrace, "tech_stack:">> \o SomeDict \o <<Comma, "dependency_health:">> \o SomeDict
             \o <<Comma, "integration_opportunities:">> \o EmptyList
             \o <<Comma, "error:">> \o error_msg \o <<RBrace>>
      [] agent = "problem_creator" ->
           <<LBrace, "title:", "Error Creating Problem", Comma,
             "description:", "Failed to generate valid problem", Comma,
             "error:">> \o error_msg \o <<Comma, "raw_response:", "raw", RBrace>>

\* the common tail of analyze and create_problem: run, decode, branch.  The
\* responses drawn below hold no member of a wrong type, so the reads of the
\* success branch (analysis.get('architecture', {}).get(...)) do not raise.
AgentRecord(agent, client) ==
    LET completion == run(client) IN
    IF completion.raised THEN Raised("InvocationError")
    ELSE LET x == extract_json_from_response(completion.text)
             analysis == x.val
         IN  IF x.kind = "raise" THEN Raised("JSONDecodeError")
             \* "analysis and not analysis.get(...)": a truthy list, number or
             \* string has no .get
             ELSE IF Truthy(analysis) /\ ~IsDict(analysis) THEN Raised("AttributeError")
             ELSE IF Truthy(analysis) /\ ~Truthy(Get(analysis, "parse_failed:"))
             THEN Returned(FALSE, analysis)
             ELSE Returned(FALSE, DefaultRecord(agent, ErrorMsg(analysis)))

\* the improvement context of a report: whether the report has the key, and
\* the members the dict under it holds
ContextMembers == {"original_problem", "validation_feedback"}
NoContext == [given |-> FALSE, members |-> {}, original_problem |-> None,
              validation_feedback |-> None]

\* C19 mutant: the mode follows the presence of the key
ModeOfPresence(repository_report) ==
    IF repository_report.improvement_context.given THEN "refinement" ELSE "creation"

\* create_problem's mode.  "improvement_context = repository_report.get(
\* 'improvement_context')" and "if improvement_context:": refinement when the
\* value is truthy, that is a dict with at least one member
ModeOf(repository_report) ==
    IF /\ repository_report.improvement_context.given
       /\ repository_report.improvement_context.members # {}
    THEN "refinement" ELSE "creation"

\* the repository profile of a synthesized report: name, description and
\* language read from the dataset with .get(key, default)
RepositoryProfile(repo) ==
    [name |-> DictGetOr(repo.name, "default"),
     description |-> DictGetOr(repo.description, "default"),
     language |-> DictGetOr(repo.language, "default")]

\* create_problem up to its prompt.  In creation mode the prompt is built
\* from the repository profile, and the description is sliced:
\* repo_profile.get('description', 'N/A')[:200].  A null has no slice, so the
\* f-string raises TypeError before the completion is requested.  (name and
\* language are only formatted.)  In refinement mode the profile is not read.
PromptRaises(repository_report) ==
    /\ ModeOf(repository_report) = "creation"
    /\ DictGetOr(repository_report.repository_profile.description, "default") = "null"

\* create_problem: the prompt, then the common tail
create_problem(repository_report, client) ==
    IF PromptRaises(repository_report) THEN Raised("TypeError")
    ELSE AgentRecord("problem_creator", client)

(***************************************************************************)
(* AssessmentOrchestrator.generate_assessment                              *)
(***************************************************************************)
NoReport == [repository_profile |-> NoRepository,
             code_analysis |-> None, pr_analysis |-> None, issue_analysis |-> None,
             dependency_analysis |-> None, improvement_context |-> NoContext]
NoResult == [success |-> FALSE, problem |-> None, validation |-> None,
             debug |-> [analysis_report |-> NoReport]]

\* what the completion client may do at a call, per agent
Malformed     == <<Word>>
NonObject     == <<LBrack, "1", RBrack>>
AnalyzerTexts == {<<LBrace, "k:", "1", RBrace>>, Malformed, NonObject}
CreatorTexts  == {<<LBrace, "title:", "P1", RBrace>>, <<LBrace, "title:", "P2", RBrace>>,
                  <<LBrace, "title:">>, NonObject}
RunValidatorTexts ==
    {<<LBrace, "overall_score:", "84", Comma, "is_approved:", "true", RBrace>>,
     <<LBrace, "overall_score:", "85", Comma, "is_approved:", "false", RBrace>>,
     Malformed, NonObject}
Client(texts) == {[raised |-> TRUE, text |-> <<>>]} \cup {[raised |-> FALSE, text |-> t] : t \in texts}

\* the datasets a caller may pass: none, an empty one, a filled one
RepoInputs == {"None", "empty", "data"}

\* the repository metadata of a dataset passed by the caller: a filled
\* dataset is one that fetch_repository_data returned earlier
GivenRepositories(given) == IF given = "data" THEN FetchedRepositories ELSE {NoRepository}

\* C20 mutant: a task that raised is not taken for finished
FinishedWhenDone == {"done"}

\* the states of a task that has come to its end
Finished == {"done", "raised"}

\* one entry of the run's call history
Call(stage, agent, mode, client, out, input, report) ==
    [stage |-> stage, agent |-> agent, mode |-> mode, report |-> report,
     completion |-> IF out.exc = "TypeError" THEN "not reached"
                    ELSE IF client.raised THEN "raised" ELSE "text",
     text |-> IF out.exc = "TypeError" THEN <<>> ELSE client.text,
     outcome |-> out.kind, input |-> input, output |-> out.val]

\* C3 mutant: creation is followed by refinement at once
StageAfterSkipping(stage) ==
    CASE stage = "SCANNING" -> "ANALYZING" [] stage = "ANALYZING" -> "CREATING"
      [] stage = "CREATING" -> "REFINING" [] stage = "VALIDATING" -> "REFINING"
      [] stage = "REFINING" -> "DONE"

\* the order of the awaits in generate_assessment and _validate_and_improve
StageAfter(stage) ==
    CASE stage = "SCANNING" -> "ANALYZING" [] stage = "ANALYZING" -> "CREATING"
      [] stage = "CREATING" -> "VALIDATING" [] stage = "VALIDATING" -> "REFINING"
      [] stage = "REFINING" -> "DONE"

\* the ranking not called
RankIdle ==
    /\ pr_suggested = <<>> /\ issue_suggested = <<>>
    /\ ranked_suggestions = <<>> /\ ranked_done = FALSE

(***************************************************************************)
(* utils/monitoring.py: PerformanceMonitor                                 *)
(***************************************************************************)
\* the operations the orchestrator times
Timers == {"total", "scan", "analysis", "creation", "validation"}

NoTime == -1   \* None, for a time or a duration

\* metrics has no entry for the operation
NoMetric == [present |-> FALSE, start_time |-> NoTime, end_time |-> NoTime,
             duration |-> NoTime, count |-> 0]
\* the entry start_timer creates
NewMetric == [present |-> TRUE, start_time |-> NoTime, end_time |-> NoTime,
              duration |-> NoTime, count |-> 0]

\* PerformanceMonitor(): self.metrics = {}, self.operation_counts = {}
NewMonitor == [metrics |-> [t \in Timers |-> NoMetric],
               operation_counts |-> [t \in Timers |-> 0]]

\* C26 mutant: a start time that is there is kept
start_timer_once(mon, operation, now) ==
    [metrics |->
         [mon.metrics EXCEPT ![operation] =
             IF @.present /\ @.start_time # NoTime THEN @
             ELSE [(IF @.present THEN @ ELSE NewMetric) EXCEPT !.start_time = now]],
     operation_counts |-> [mon.operation_counts EXCEPT ![operation] = @ + 1]]

\* start_timer at time now
start_timer(mon, operation, now) ==
    [metrics |->
         [mon.metrics EXCEPT ![operation] =
             [(IF @.present THEN @ ELSE NewMetric) EXCEPT !.start_time = now]],
     operation_counts |-> [mon.operation_counts EXCEPT ![operation] = @ + 1]]

\* end_timer at time now: nothing for an operation never started
end_timer(mon, operation, now) ==
    IF ~mon.metrics[operation].present \/ mon.metrics[operation].start_time = NoTime
    THEN mon
    ELSE [mon EXCEPT !.metrics[operation] =
             [present |-> TRUE, start_time |-> @.start_time, end_time |-> now,
              duration |-> now - @.start_time,
              count |-> mon.operation_counts[operation]]]

\* get_all_metrics: "return self.metrics", the monitor's own dict and not a
\* copy of it: what the caller holds shows every later change
get_all_metrics(mon) == [shared |-> TRUE, metrics |-> mon.metrics]

\* no run of the orchestrator made yet
TimedIdle ==
    /\ performance = NewMonitor /\ clock = 1 /\ timed_pc = "idle" /\ runs = 0
    /\ returned = <<>>

\* create_problem not called on its own
NotCreated == [kind |-> "not run", report |-> NoReport, mode |-> "none", out |-> NotCalled]
CreateIdle == creator_call = NotCreated

(***************************************************************************)
(* utils/a2a_protocol.py: A2AProtocol, the notification log                *)
(***************************************************************************)
\* A2AMessage; the uuid of message_id is a number never given twice, and
\* in_response_to (a member of the data of a response) is 0 where there is none
A2AMessage(id, sender_id, recipient_id, message_type, data, in_response_to, conversation_id) ==
    [message_id |-> id, sender_id |-> sender_id, recipient_id |-> recipient_id,
     message_type |-> message_type, data |-> data, in_response_to |-> in_response_to,
     conversation_id |-> conversation_id]

\* A2AProtocol(): an empty history and an empty index
NewLog == [message_history |-> <<>>, conversation_index |-> <<>>]

\* the answer of a call that gives back no message and no list
NoMessage == A2AMessage(0, "", "", "", "", 0, "")

\* _log_message: the message is appended to the history and to the list the
\* index holds for its conversation, made if it is not there
_log_message(log, message) ==
    [message_history |-> Append(log.message_history, message),
     conversation_index |->
         [c \in DOMAIN log.conversation_index \cup {message.conversation_id} |->
             IF c = message.conversation_id
             THEN Append(IF c \in DOMAIN log.conversation_index
                         THEN log.conversation_index[c] ELSE <<>>, message)
             ELSE log.conversation_index[c]]]

\* send_message: builds the message and logs it
send_message(log, id, sender_id, recipient_id, data, in_response_to, conversation_id, message_type) ==
    [log |-> _log_message(log, A2AMessage(id, sender_id, recipient_id, message_type, data,
                                          in_response_to, conversation_id)),
     message |-> A2AMessage(id, sender_id, recipient_id, message_type, data,
                            in_response_to, conversation_id)]

\* C23 mutant: the recipient of a broadcast is "all"
BroadcastRecipientAll == "all"

\* the recipient broadcast_message puts on its message
BroadcastRecipient == "all_agents"

\* broadcast_message
broadcast_message(log, id, sender_id, data, conversation_id) ==
    send_message(log, id, sender_id, BroadcastRecipient, data, 0, conversation_id,
                 "broadcast")

\* send_response: the data gets the member in_response_to
send_response(log, id, sender_id, recipient_id, data, conversation_id, original_message_id) ==
    send_message(log, id, sender_id, recipient_id, data, original_message_id,
                 conversation_id, "response")

\* "if conversation_id:" is false for None and for the empty string
FalsyId(conversation_id) == conversation_id \in {"None", ""}

\* the messages of a sequence that are (keep = TRUE) or are not (keep =
\* FALSE) of the conversation, in their order
OfConversation(messages, conversation_id, keep) ==
    LET idx == {i \in 1..Len(messages) :
                   (messages[i].conversation_id = conversation_id) = keep}
        nth[k \in 0..Len(messages)] ==
            IF k = 0 THEN <<>>
            ELSE IF k \in idx THEN Append(nth[k - 1], messages[k]) ELSE nth[k - 1]
    IN  nth[Len(messages)]

\* get_message_history(conversation_id): the list of the index, or the
\* whole history when the argument is None or empty
get_message_history(log, conversation_id) ==
    IF ~FalsyId(conversation_id)
    THEN IF conversation_id \in DOMAIN log.conversation_index
         THEN log.conversation_index[conversation_id] ELSE <<>>
    ELSE log.message_history

\* clear_history(conversation_id)
clear_history(log, conversation_id) ==
    IF ~FalsyId(conversation_id)
    THEN IF conversation_id \in DOMAIN log.conversation_index
         THEN [message_history |->
                   OfConversation(log.message_history, conversation_id, FALSE),
               conversation_index |->
                   [c \in DOMAIN log.conversation_index \ {conversation_id} |->
                       log.conversation_index[c]]]
         ELSE log
    ELSE NewLog

\* the protocol not used
NoCall == [op |-> "none", arg |-> "None", message |-> NoMessage, messages |-> <<>>,
           before |-> <<>>]
A2AIdle ==
    /\ message_history = <<>> /\ conversation_index = <<>> /\ next_message_id = 1
    /\ a2a_out = NoCall

\* no two runs side by side
TwinIdle == twin = <<>>

\* the timer of BaseGeminiAgent.run: f"{self.name}_execution"
ExecutionTimer == "execution"

\* the PerformanceMonitor an agent is built with
AgentMonitor == [metrics |-> [t \in {ExecutionTimer} |-> NoMetric],
                 operation_counts |-> [t \in {ExecutionTimer} |-> 0]]

\* no call of run made
NoRun == [conversation_id |-> "None", completion |-> "none", elapsed |-> 0,
          raised |-> FALSE, text |-> <<>>, before |-> <<>>]
AgentIdle == last_run = [performance |-> AgentMonitor, call |-> NoRun]

\* no timer call made
TimingIdle == timing = [calls |-> <<>>, before |-> NewMonitor]

\* run_assessment has not come to its end
NotEntered == [kind |-> "not run", exc |-> "none", result |-> NoResult]
EntryIdle == entry = NotEntered

\* no prompt built
NotBuilt == [kind |-> "not run", exc |-> "none", deps_summary |-> <<>>]
PromptIdle == prompt = [dependencies |-> <<>>, readme |-> "absent", built |-> NotBuilt]

\* a key a dataset does not have
Missing == <<<<"missing", 0>>>>
\* the PR analyser not called
PrIdle ==
    pr_call = [dataset |-> [origin |-> "given", pull_requests |-> Missing,
                            pullRequests |-> Missing],
               called |-> FALSE, counted |-> 0, displayed |-> <<>>, embedded |-> <<>>]
\* no orchestrator made
IsolationIdle == isolation = [now |-> 0, instances |-> <<>>, runs |-> <<>>, log |-> NewLog]
\* the stream sys.stdout is when the server starts
OriginalStream == "original"
\* no client has connected
WebIdle ==
    web = [stdout |-> OriginalStream, pc |-> <<>>, old_stdout |-> <<>>, terminal |-> <<>>,
           connected |-> {}, active_sessions |-> <<>>, printed |-> <<>>, events |-> <<>>]
LastIdle == PrIdle /\ IsolationIdle /\ WebIdle

LaterIdle == TwinIdle /\ AgentIdle /\ TimingIdle /\ EntryIdle /\ PromptIdle /\ LastIdle

MoreIdle == A2AIdle /\ LaterIdle

PureIdle == RankIdle /\ TimedIdle /\ CreateIdle /\ MoreIdle

RunIdle ==
    /\ pc = "idle" /\ repo_data = "None" /\ repository = NoRepository
    /\ task = [a \in Analyzers |-> "idle"]
    /\ results = [a \in Analyzers |-> None]
    /\ running = "none"
    /\ analysis_report = NoReport
    /\ problem = None
    /\ final_result = NoResult
    /\ failure = "none"
    /\ trace = <<>>

\* generate_assessment(url, repo_data=given): the scanner is used only when
\* repo_data is None; otherwise the four analysis tasks are created at once
\* C15 mutant: an empty dataset counts as no dataset
ScanNeededIfFalsy(given) == given \in {"None", "empty"}

\* "if repo_data is None"
ScanNeeded(given) == given = "None"

Start(given, given_repository) ==
    /\ pc = "idle"
    /\ repo_data' = given
    /\ repository' = given_repository
    /\ IF ScanNeeded(given)
       THEN pc' = "SCANNING" /\ UNCHANGED task
       ELSE pc' = StageAfter("SCANNING") /\ task' = [a \in Analyzers |-> "ready"]
    /\ UNCHANGED <<results, running, analysis_report, problem, final_result, failure,
                   trace, extract_vars, validate_vars, pure_vars>>

\* what the scanner finds when it is called: a GitHub client whose fetch
\* returns a dataset, one whose fetch raises, or no client at all
FetchOutcomes == {"fetch returned", "fetch raised", "no client"}

\* C16 mutant: the mock dataset is built and returned
MockRepositoryDataReturned == [kind |-> "return", data |-> "mock", exc |-> "none"]

\* _get_mock_repository_data: building the dict reads file_contents, a name
\* that is not defined, so the call raises NameError
MockRepositoryData == [kind |-> "raise", data |-> "None", exc |-> "NameError"]

\* scan_repository: the fetched dataset, or the mock one when there is no
\* client or the fetch raised
scan_repository(fetch) ==
    IF fetch = "fetch returned"
    THEN [kind |-> "return", data |-> "fetched", exc |-> "none"]
    ELSE MockRepositoryData

\* _scan_repository: the one call of the scanner
ScanRepository(fetch, fetched) ==
    /\ pc = "SCANNING"
    /\ \E out \in {scan_repository(fetch)} :
         /\ trace' = Append(trace, [stage |-> "SCANNING", agent |-> "github_scanner",
                                    mode |-> "scan", report |-> NoReport,
                                    completion |-> fetch, text |-> <<>>,
                                    outcome |-> out.kind, input |-> None, output |-> None])
         /\ IF out.kind = "return"
            THEN /\ repo_data' = out.data
                 /\ repository' = fetched
                 /\ pc' = StageAfter("SCANNING")
                 /\ task' = [a \in Analyzers |-> "ready"]
                 /\ UNCHANGED failure
            ELSE /\ pc' = "FAILED"
                 /\ failure' = out.exc
                 /\ UNCHANGED <<repo_data, repository, task>>
    /\ UNCHANGED <<results, running, analysis_report, problem, final_result,
                   extract_vars, validate_vars, pure_vars>>

\* position of an analyser among the tasks given to gather
OrderOf(a) == CHOOSE i \in 1..Len(AnalyzerOrder) : AnalyzerOrder[i] = a

\* the event loop takes the next ready task; the task runs up to its call of
\* client.models.generate_content, a plain (blocking) call
AnalyzerCall(a) ==
    /\ pc = "ANALYZING"
    /\ task[a] = "ready"
    /\ running = "none"
    /\ \A b \in Analyzers : OrderOf(b) < OrderOf(a) => task[b] \in Finished
    /\ task' = [task EXCEPT ![a] = "calling"]
    /\ running' = a
    /\ UNCHANGED <<pc, repo_data, repository, results, analysis_report, problem, final_result,
                   failure, trace, extract_vars, validate_vars, pure_vars>>

\* the call comes back (a text or an exception) and the task runs on to its
\* end without giving up the thread: send_message never suspends
AnalyzerReturn(a, client) ==
    /\ task[a] = "calling"
    /\ running = a
    /\ \E out \in {AgentRecord(a, client)} :
         /\ task' = [task EXCEPT ![a] = IF out.kind = "return" THEN "done" ELSE "raised"]
         /\ results' = [results EXCEPT ![a] = out]
         /\ trace' = Append(trace, Call("ANALYZING", a, "analyze", client, out, None,
                                        NoReport))
    /\ running' = "none"
    /\ UNCHANGED <<pc, repo_data, repository, analysis_report, problem, final_result, failure,
                   extract_vars, validate_vars, pure_vars>>

\* C7 mutant: the join goes on with three of the four results
JoinFailsLenient(t) == Cardinality({a \in Analyzers : t[a] = "raised"}) > 1

\* asyncio.gather without return_exceptions: one raising task fails the await
JoinFails(t) == \E a \in Analyzers : t[a] = "raised"

\* the exception gather hands on: that of the first task, in order, that raised
FirstRaised(t) ==
    CHOOSE a \in Analyzers : t[a] = "raised"
        /\ \A b \in Analyzers : t[b] = "raised" => OrderOf(a) <= OrderOf(b)

\* _synthesize_single_report: the profile read from the dataset with
\* .get(key, default), and the four records, put into one report
Synthesize(r, repo) ==
    [repository_profile |-> RepositoryProfile(repo),
     code_analysis |-> r["code_analyzer"].val, pr_analysis |-> r["pr_analyzer"].val,
     issue_analysis |-> r["issue_analyzer"].val,
     dependency_analysis |-> r["dependency_analyzer"].val,
     improvement_context |-> NoContext]

\* results = await asyncio.gather(*tasks), then the synthesis
JoinAnalysis ==
    /\ pc = "ANALYZING"
    /\ running = "none"
    /\ \A a \in Analyzers : task[a] \in Finished
    /\ IF JoinFails(task)
       THEN /\ pc' = "FAILED"
            /\ failure' = results[FirstRaised(task)].exc
            /\ UNCHANGED analysis_report
       ELSE /\ pc' = StageAfter("ANALYZING")
            /\ analysis_report' = Synthesize(results, repository)
            /\ UNCHANGED failure
    /\ UNCHANGED <<repo_data, repository, task, results, running, problem, final_result, trace,
                   extract_vars, validate_vars, pure_vars>>

\* what a stage does with the outcome of its one agent call
Proceed(stage, out) ==
    IF out.kind = "return"
    THEN pc' = StageAfter(stage) /\ UNCHANGED failure
    ELSE pc' = "FAILED" /\ failure' = out.exc

\* _create_problem: one creation call
CreateProblem(client) ==
    /\ pc = "CREATING"
    /\ \E out \in {create_problem(analysis_report, client)} :
         /\ problem' = out.val
         /\ trace' = Append(trace, Call("CREATING", "problem_creator",
                                        ModeOf(analysis_report), client, out, None,
                                        analysis_report))
         /\ Proceed("CREATING", out)
    /\ UNCHANGED <<repo_data, repository, task, results, running, analysis_report, final_result,
                   extract_vars, validate_vars, pure_vars>>

\* C2 mutant: an approved problem is returned as it is, without refinement
AfterValidationUnlessApproved(is_approved) ==
    IF is_approved THEN "DONE" ELSE StageAfter("VALIDATING")

\* "Always improve based on feedback (even if approved)": the refinement call
\* follows the validation whatever is_approved says
AfterValidation(is_approved) == StageAfter("VALIDATING")

\* _validate_and_improve, first half: the one validation call
ValidateProblem(client) ==
    /\ pc = "VALIDATING"
    /\ \E out \in {validate_problem(quality_threshold, client)} :
         /\ validator_out' = out
         /\ trace' = Append(trace, Call("VALIDATING", "qa_validator", "validate",
                                        client, out, problem, analysis_report))
         /\ IF out.kind = "return"
            THEN pc' = AfterValidation(out.approved) /\ UNCHANGED failure
            ELSE pc' = "FAILED" /\ failure' = out.exc
    /\ UNCHANGED <<repo_data, repository, task, results, running, analysis_report, problem,
                   final_result, extract_vars, quality_threshold, pure_vars>>

\* C1 mutant: the problem of the creation call is handed back
ValidateAndImproveResultOriginal(original, improved_problem, validation_result) ==
    [problem |-> original, validation |-> validation_result]

\* "return improved_problem, validation_result"
ValidateAndImproveResult(original, improved_problem, validation_result) ==
    [problem |-> improved_problem, validation |-> validation_result]

\* _compile_final_result: debug.analysis_report is the report dict itself
CompileFinalResult(pair, report) ==
    [success |-> TRUE, problem |-> pair.problem, validation |-> pair.validation,
     debug |-> [analysis_report |-> report]]

\* C32 mutant: the context is stored in the report dict itself
UpdatedInPlace(report, extended) == extended

\* the report dict after "{**analysis_report, 'improvement_context': ...}"
\* has been evaluated: the display builds a new dict from the items of the
\* report and leaves the report's own items as they were
AfterDictDisplay(report, extended) == report

\* _validate_and_improve, second half, and the end of the run: the report
\* extended with the improvement context goes to the creator once more, the
\* result is compiled and returned
RefineProblem(client) ==
    /\ pc = "REFINING"
    /\ \E report \in {[analysis_report EXCEPT !.improvement_context =
                           [given |-> TRUE, members |-> ContextMembers,
                            original_problem |-> problem,
                            validation_feedback |-> validator_out.val]]} :
       \E out \in {create_problem(report, client)} :
             /\ trace' = Append(trace, Call("REFINING", "problem_creator",
                                            ModeOf(report), client, out, problem, report))
             /\ Proceed("REFINING", out)
             /\ analysis_report' = AfterDictDisplay(analysis_report, report)
             /\ final_result' =
                  IF out.kind = "return"
                  THEN CompileFinalResult(
                           ValidateAndImproveResult(problem, out.val, validator_out.val),
                           AfterDictDisplay(analysis_report, report))
                  ELSE final_result
    /\ UNCHANGED <<repo_data, repository, task, results, running, problem,
                   extract_vars, validate_vars, pure_vars>>

Init ==
    /\ RunIdle
    /\ PureIdle
    /\ response = <<>> /\ embedding = [fence |-> "arbitrary", obj |-> <<>>, pre |-> <<>>, post |-> <<>>]
    /\ extract_out = [kind |-> "not run", val |-> None]
    /\ quality_threshold = DefaultQualityThreshold
    /\ validator_out = NotCalled

Next ==
    \/ \E given \in RepoInputs : \E r \in GivenRepositories(given) : Start(given, r)
    \/ \E fetch \in FetchOutcomes, r \in FetchedRepositories : ScanRepository(fetch, r)
    \/ \E a \in Analyzers : AnalyzerCall(a)
    \/ \E a \in Analyzers, c \in Client(AnalyzerTexts) : AnalyzerReturn(a, c)
    \/ JoinAnalysis
    \/ \E c \in Client(CreatorTexts) : CreateProblem(c)
    \/ \E c \in Client(RunValidatorTexts) : ValidateProblem(c)
    \/ \E c \in Client(CreatorTexts) : RefineProblem(c)

Spec == Init /\ [][Next]_vars

\* a step of a run that has started.  Every step is either the event loop
\* going on with a coroutine that is ready or the return (or raise) of a
\* collaborator's call; neither is put off for ever
RunStep == pc # "idle" /\ Next

\* the runs in which every collaborator call comes back
SpecFair == Init /\ [][Next]_vars /\ WF_vars(RunStep)

(***************************************************************************)
(* Inputs of the extractor                                                 *)
(***************************************************************************)
MaxTextLen == 3     \* longest text drawn unit by unit
MaxObjLen  == 4     \* longest embedded object
MaxProse   == 1     \* longest prose before, and after, an embedded object
MaxFollowing == 2   \* most complete objects that follow a first object

Alphabet == {LBrace, RBrace, LBrack, RBrack, Comma, Ws, Fence, FenceJson,
             "k:", "1", StrBrace, Word}
ObjectAlphabet == {LBrace, RBrace, LBrack, RBrack, "k:", "1", StrBrace}
ProseAlphabet == {Word, Ws, LBrace, RBrace, LBrack, RBrack, Fence, FenceJson}

RECURSIVE SeqsUpTo(_, _)
SeqsUpTo(A, n) ==
    IF n = 0 THEN {<<>>}
    ELSE LET P == SeqsUpTo(A, n - 1) IN P \cup {Append(q, c) : q \in P, c \in A}

Texts   == SeqsUpTo(Alphabet, MaxTextLen)
Prose   == SeqsUpTo(ProseAlphabet, MaxProse)
\* the well-formed JSON objects up to MaxObjLen units
Objects == {o \in SeqsUpTo(ObjectAlphabet, MaxObjLen) :
               Len(o) > 0 /\ o[1] = LBrace /\ json_loads(o).ok}

\* an object cut off before its closing brace
Fragments == {<<LBrace>>, <<LBrace, "k:">>, <<LBrace, "k:", "1">>}
\* what follows the first object of a text of several top-level objects:
\* complete objects, then possibly the beginning of one more
RECURSIVE Concat(_)
Concat(ss) == IF ss = <<>> THEN <<>> ELSE Head(ss) \o Concat(Tail(ss))
Tails == {t \in [objs : SeqsUpTo(Objects, MaxFollowing), frag : Fragments \cup {<<>>}] :
             t.objs # <<>> \/ t.frag # <<>>}
TailText(t) == Concat(t.objs) \o t.frag

NoEmbedding == [fence |-> "arbitrary", obj |-> <<>>, pre |-> <<>>, post |-> <<>>]
NotRun == [kind |-> "not run", val |-> None]

\* the text with the object put between the prose, bare or in a fenced block
Embed(e) ==
    CASE e.fence = "none"  -> e.pre \o e.obj \o e.post
      [] e.fence = "plain" -> e.pre \o <<Fence>> \o e.obj \o <<Fence>> \o e.post
      [] e.fence = "json"  -> e.pre \o <<FenceJson>> \o e.obj \o <<Fence>> \o e.post
      [] e.fence = "sequence" -> e.obj \o e.post

ValidateIdle == quality_threshold = DefaultQualityThreshold /\ validator_out = NotCalled

InitExtract ==
    /\ \/ /\ embedding = NoEmbedding
          /\ response \in Texts
       \/ \E o \in Objects, a \in Prose, b \in Prose, f \in {"none", "plain", "json"} :
            /\ embedding = [fence |-> f, obj |-> o, pre |-> a, post |-> b]
            /\ response = Embed(embedding)
       \/ \E o \in Objects, t \in Tails :
            /\ embedding = [fence |-> "sequence", obj |-> o, pre |-> <<>>, post |-> TailText(t)]
            /\ response = Embed(embedding)
    /\ extract_out = NotRun
    /\ ValidateIdle
    /\ RunIdle
    /\ PureIdle

\* one call of extract_json_from_response(response)
Extract ==
    /\ extract_out = NotRun
    /\ extract_out' = extract_json_from_response(response)
    /\ UNCHANGED <<response, embedding, validate_vars, run_vars, pure_vars>>

NextExtract == Extract
SpecExtract == InitExtract /\ [][NextExtract]_vars

Has(s, T) == \E i \in 1..Len(s) : s[i] \in T

BraceUnits == {LBrace, RBrace, StrBrace}
FenceUnits == {Fence, FenceJson}
C10_Covered(e) ==
    /\ e.fence \in {"none", "plain", "json"}
    /\ ~Has(e.pre, FenceUnits) /\ ~Has(e.post, FenceUnits)
    /\ e.fence = "none" =>
          /\ ~Has(e.pre, BraceUnits) /\ ~Has(e.post, BraceUnits)
          /\ ~Has(e.obj, {StrBrace})
          /\ json_loads(Embed(e)).ok => json_loads(Embed(e)).val = json_loads(e.obj).val

Opening(s) == Cardinality({i \in 1..Len(s) : s[i] = LBrace})
Closing(s) == Cardinality({i \in 1..Len(s) : s[i] \in Closers})
\* the brace depth, counted from the first opening brace of s, is back at
\* zero somewhere
DepthReturnsToZero(s) ==
    \E i \in 1..Len(s), j \in 1..Len(s) :
        /\ s[i] = LBrace /\ \A k \in 1..(i - 1) : s[k] # LBrace
        /\ j > i /\ s[j] \in Closers
        /\ Opening(SubSeq(s, i, j)) = Closing(SubSeq(s, i, j))

\* C12 (as amended): a text without fence markers that does not decode as it
\* stands and whose brace depth, counted from its first opening brace, never
\* returns to zero (a truncated object) gives None; but an unbalanced text
\* whose depth does return to zero is cut there and decoded: a well-formed
\* object followed by a stray closing brace, or by a stray opening brace, is
\* returned as a parsed record.
C12_UnbalancedCutAndDecoded ==
    extract_out # NotRun =>
        /\ (/\ ~Has(response, FenceUnits)
            /\ ~json_loads(response).ok
            /\ ~DepthReturnsToZero(response))
              => extract_out = [kind |-> "return", val |-> None]
        /\ (/\ embedding.fence = "none" /\ embedding.pre = <<>>
            /\ embedding.post \in {<<RBrace>>, <<LBrace>>}
            /\ ~Has(embedding.obj, {StrBrace}))
              => extract_out = [kind |-> "return", val |-> json_loads(embedding.obj).val]

\* C12 witness: an object followed by a stray closing brace, returned parsed
C12_Witness ==
    /\ response = <<LBrace, "k:", "1", RBrace, RBrace>>
    /\ Opening(response) < Closing(response)
    /\ extract_out = [kind |-> "return", val |-> <<LBrace, "k:", "1", RBrace>>]

\* C12 as claimed: a text with unbalanced braces never gives a parsed record
C12_UnbalancedFails ==
    (extract_out # NotRun /\ Opening(response) # Closing(response)) =>
        extract_out = [kind |-> "return", val |-> None]


(***************************************************************************)
(* validate_problem on its own                                             *)
(***************************************************************************)
Thresholds == {0, 1, 85, 100}

\* a validation object as the model may write it: with or without a score,
\* with or without its own is_approved
ScoreOpts == {Absent, <<"0">>, <<"84">>, <<"85">>, <<"100">>, <<"str">>, <<"null">>}
ApprovedOpts == {Absent, <<"true">>, <<"false">>}
ValidationText(score, approved) ==
    <<LBrace>>
      \o (IF score = Absent THEN <<>> ELSE <<"overall_score:">> \o score)
      \o (IF score # Absent /\ approved # Absent THEN <<Comma>> ELSE <<>>)
      \o (IF approved = Absent THEN <<>> ELSE <<"is_approved:">> \o approved)
      \o <<RBrace>>

ValidatorResponses ==
    {ValidationText(sc, ap) : sc \in ScoreOpts, ap \in ApprovedOpts}
      \cup {<<>>, <<Word>>, <<LBrace, "overall_score:">>, <<LBrack, "1", RBrack>>,
            <<Word, LBrace, "overall_score:", "100", RBrace, Word>>,
            <<LBrace, "parse_failed:", "true", Comma, "overall_score:", "100", RBrace>>}

ExtractIdle == embedding = NoEmbedding /\ extract_out = NotRun

InitValidate ==
    /\ quality_threshold \in Thresholds
    /\ response \in ValidatorResponses
    /\ validator_out = NotCalled
    /\ ExtractIdle
    /\ RunIdle
    /\ PureIdle

\* one call of validate_problem; the completion client returns response or raises
Validate ==
    /\ validator_out = NotCalled
    /\ \E raised \in BOOLEAN :
         validator_out' = validate_problem(quality_threshold,
                                           [raised |-> raised, text |-> response])
    /\ UNCHANGED <<extract_vars, quality_threshold, run_vars, pure_vars>>

NextValidate == Validate
SpecValidate == InitValidate /\ [][NextValidate]_vars

\* the overall_score of a returned validation, 0 when the key is missing
ScoreIn(val) == NumOf(GetOr(val, "overall_score:", <<"0">>))

CallsIn(stage) == {i \in 1..Len(trace) : trace[i].stage = stage}
CallsOf(agent) == {i \in 1..Len(trace) : trace[i].agent = agent}
TheCall(stage) == trace[CHOOSE i \in CallsIn(stage) : TRUE]

\* C1: in every run that returns, the validation of the result is the one the
\* validator produced for the problem of the creation call, the problem of
\* the result is the output of the later refinement call, and no validation
\* call follows the refinement (the refined problem is never validated, the
\* validation never recomputed).
C1_OriginalValidationRefinedProblem ==
    pc = "DONE" =>
        /\ Cardinality(CallsIn("CREATING")) = 1
        /\ Cardinality(CallsIn("VALIDATING")) = 1
        /\ Cardinality(CallsIn("REFINING")) = 1
        /\ final_result.success
        /\ final_result.problem = TheCall("REFINING").output
        /\ TheCall("REFINING").mode = "refinement"
        /\ final_result.validation = TheCall("VALIDATING").output
        /\ TheCall("VALIDATING").input = TheCall("CREATING").output
        /\ TheCall("CREATING").mode = "creation"
        /\ TheCall("REFINING").input = TheCall("CREATING").output
        /\ \A i \in CallsOf("qa_validator"), j \in CallsIn("REFINING") : i < j

\* C1 witness: a run that returned the refined problem P2 with the validation
\* (score 84, refused) of the first problem P1
C1_Witness ==
    /\ pc = "DONE"
    /\ problem = <<LBrace, "title:", "P1", RBrace>>
    /\ final_result.problem = <<LBrace, "title:", "P2", RBrace>>
    /\ Get(final_result.validation, "overall_score:") = <<"84">>
    /\ TheCall("VALIDATING").input = problem

StageRank(stage) ==
    CASE stage = "idle" -> 0 [] stage = "SCANNING" -> 1 [] stage = "ANALYZING" -> 2
      [] stage = "CREATING" -> 3 [] stage = "VALIDATING" -> 4 [] stage = "REFINING" -> 5
      [] stage = "DONE" -> 6 [] stage = "FAILED" -> 7
WorkStages == {"SCANNING", "ANALYZING", "CREATING", "VALIDATING", "REFINING"}
C3_StepAllowed(from, to) ==
    \/ from = "idle" /\ to \in {"SCANNING", "ANALYZING"}
    \/ from \in WorkStages /\ to = "FAILED"
    \/ from \in WorkStages /\ StageRank(to) = StageRank(from) + 1

\* C3: the stage of a run only ever steps to the next stage of the order
\* SCANNING (when there is a scan), ANALYZING, CREATING, VALIDATING, REFINING,
\* DONE, or to FAILED; every call is made in the stage the run is in, after
\* the calls of the earlier stages; a run that is past a stage made that
\* stage's calls (none but SCANNING is skipped); and from DONE or FAILED on
\* nothing is executed any more.
C3_StagesInOrder ==
    /\ [][/\ pc' # pc => C3_StepAllowed(pc, pc')
          /\ trace' # trace =>
                /\ Len(trace') = Len(trace) + 1
                /\ SubSeq(trace', 1, Len(trace)) = trace
                /\ trace'[Len(trace')].stage = pc
          /\ pc \in {"DONE", "FAILED"} => UNCHANGED vars]_vars
    /\ [](/\ \A i, j \in 1..Len(trace) :
                i < j => StageRank(trace[i].stage) <= StageRank(trace[j].stage)
          /\ \A st \in WorkStages \ {"SCANNING"} :
                (pc \in WorkStages \cup {"DONE"} /\ StageRank(pc) > StageRank(st))
                    => Cardinality(CallsIn(st)) = IF st = "ANALYZING" THEN 4 ELSE 1
          /\ pc = "DONE" => (CallsIn("SCANNING") # {} <=> repo_data = "fetched"))

\* C3 witness: a run that scanned first and went through every stage to DONE
C3_Witness ==
    /\ pc = "DONE"
    /\ Len(trace) = 8
    /\ trace[1].stage = "SCANNING"

\* C5 as claimed: whatever text the completion client returns, the agent
\* returns a record, and no run fails without a completion call having raised
C5_DecodeFailureNeverRaises ==
    /\ \A i \in 1..Len(trace) :
          trace[i].completion = "text" => trace[i].outcome = "return"
    /\ pc = "FAILED" =>
          \E i \in 1..Len(trace) : trace[i].completion \in {"raised", "fetch raised", "no client"}

\* C6: when a completion call has raised, the agent's call raised too (there
\* is no record in its place), the call was not made again, the run has not
\* returned and never holds a result with success = true; and when that call
\* is the first of the run to raise, the run fails or is about to fail at the
\* join with that very failure.
C6_CompletionFailurePropagates ==
    \A i \in 1..Len(trace) :
        trace[i].completion = "raised" =>
            /\ trace[i].outcome = "raise"
            /\ trace[i].output = None
            /\ \A j \in 1..Len(trace) :
                  (j # i /\ trace[j].agent = trace[i].agent)
                      => trace[j].stage # trace[i].stage
            /\ pc \in {"ANALYZING", "FAILED"}
            /\ pc = "ANALYZING" => trace[i].stage = "ANALYZING"
            /\ ~final_result.success
            /\ (pc = "FAILED" /\ \A j \in 1..(i - 1) : trace[j].outcome = "return")
                  => failure = "InvocationError"
            /\ trace[i].stage # "ANALYZING" => (pc = "FAILED" /\ i = Len(trace))

\* C6 witness: the completion call of the validator raised and the run failed
\* with it
C6_Witness ==
    /\ pc = "FAILED"
    /\ failure = "InvocationError"
    /\ Len(trace) = 6
    /\ trace[6].agent = "qa_validator" /\ trace[6].completion = "raised"

\* C7: a report exists, and the run is in a stage after ANALYZING, only when
\* all four analysers have returned a record, and the report holds exactly
\* their four records; when any analyser raised there is no report and the
\* run never gets past ANALYZING other than to FAILED, which it does only
\* after all four tasks have ended.
C7_JoinBarrier ==
    /\ (analysis_report # NoReport \/ pc \in {"CREATING", "VALIDATING", "REFINING", "DONE"})
          => /\ \A a \in Analyzers : task[a] = "done" /\ results[a].kind = "return"
             /\ analysis_report = Synthesize(results, repository)
    /\ (\E a \in Analyzers : task[a] = "raised")
          => /\ analysis_report = NoReport
             /\ pc \in {"ANALYZING", "FAILED"}
             /\ pc = "FAILED" => \A a \in Analyzers : task[a] \in Finished
    /\ pc \in {"CREATING", "VALIDATING", "REFINING", "DONE"} => analysis_report # NoReport

\* C7 witness: three analysers returned a record, one raised, and the run
\* failed without a report
C7_Witness ==
    /\ pc = "FAILED"
    /\ task["issue_analyzer"] = "raised"
    /\ \A a \in Analyzers \ {"issue_analyzer"} : task[a] = "done"
    /\ analysis_report = NoReport

\* C8 as claimed: a completion call is a suspension point, so while one
\* analyser waits for its completion another one that is ready can start:
\* two completion calls can be in flight together
C8_CallsCanOverlap ==
    \A a, b \in Analyzers :
        (task[a] = "calling" /\ task[b] = "ready") => ENABLED AnalyzerCall(b)


\* the top-level keys of a record
TopKeys(v) == {v[i] : i \in {j \in 1..Len(v) : v[j] \in Keys /\ Depth(v, j) = 1}}
\* the calls whose completion text the extractor could not decode, and that
\* returned all the same
DecodeFailures ==
    {i \in 1..Len(trace) :
        /\ trace[i].completion = "text" /\ trace[i].outcome = "return"
        /\ extract_json_from_response(trace[i].text).val = None}

\* C13 (as amended): the record an agent returns on a decode failure holds
\* the keys of its schema and error for the PR, issue and dependency
\* analysers and the validator; those and raw_response for the code analyser;
\* and only title, description, error and raw_response for the creator, nine
\* of whose schema keys are missing.  No agent adds parse_failed.
C13_DefaultRecordKeys ==
    \A i \in DecodeFailures :
        LET agent == trace[i].agent
            keys == TopKeys(trace[i].output)
        IN  /\ "parse_failed:" \notin keys
            /\ agent \in {"pr_analyzer", "issue_analyzer", "dependency_analyzer", "qa_validator"}
                  => keys = SchemaKeys(agent) \cup {"error:"}
            /\ agent = "code_analyzer"
                  => keys = SchemaKeys(agent) \cup {"error:", "raw_response:"}
            /\ agent = "problem_creator"
                  => keys = {"title:", "description:", "error:", "raw_response:"}

\* C13 witness: a run in which the creator and the validator both got a text
\* that does not decode, and returned their default records
C13_Witness ==
    /\ pc = "REFINING"
    /\ \E i, j \in DecodeFailures :
          trace[i].agent = "problem_creator" /\ trace[j].agent = "qa_validator"

\* C13 as claimed: the keys of the record returned on a decode failure are
\* those of the schema plus only the error / parse_failed marker
C13_SchemaComplete ==
    \A i \in DecodeFailures :
        TopKeys(trace[i].output) \ {"error:", "parse_failed:"} = SchemaKeys(trace[i].agent)


\* C15: in a run that was given a dataset, the empty one included, the
\* scanner is never called; in a run that was given none, the scanner is
\* called exactly once, as the first call of the run and before any analysis
\* task exists, and never a second time.
C15_ScanOnlyWithoutDataset ==
    /\ repo_data \in {"empty", "data"} => CallsOf("github_scanner") = {}
    /\ (repo_data \in {"None", "fetched", "mock"} /\ pc \notin {"idle", "SCANNING"})
          => CallsOf("github_scanner") = {1}
    /\ pc = "SCANNING" => (trace = <<>> /\ \A a \in Analyzers : task[a] = "idle")
    /\ CallsOf("github_scanner") = CallsIn("SCANNING")
    /\ Cardinality(CallsOf("github_scanner")) <= 1

\* C15 witness: a run on an empty dataset that went to its end without a scan
C15_Witness ==
    /\ pc = "DONE"
    /\ repo_data = "empty"
    /\ CallsOf("github_scanner") = {}

Terminal == {"DONE", "FAILED"}

\* C20: when every collaborator call comes back, a run that has started
\* comes to DONE or to FAILED and stays there; it is at DONE exactly when a
\* result has been returned, and that result has success = true; it is at
\* FAILED exactly when an exception has left generate_assessment, and then no
\* result has been returned.
C20_RunEndsDoneOrFailed ==
    /\ (pc # "idle") ~> (pc \in Terminal)
    /\ [][(pc \in Terminal) =>
              (pc' = pc /\ final_result' = final_result /\ failure' = failure)]_vars
    /\ [](pc = "DONE" <=> final_result # NoResult)
    /\ [](final_result # NoResult => final_result.success /\ failure = "none")
    /\ [](pc = "FAILED" <=> failure # "none")

\* C20 witness: a run that went through the analysis, the creation and the
\* validation and failed at the refinement call: it is at FAILED and has
\* returned nothing
C20_Witness ==
    /\ pc = "FAILED" /\ final_result = NoResult /\ failure # "none"
    /\ CallsIn("REFINING") # {}

\* C17 as claimed: no field of a fetched dataset is null, so that a run on a
\* fetched dataset (scanned in the run, or fetched earlier and passed in)
\* never has an agent fail while it builds its prompt
C17_NullFieldNeverFails ==
    repo_data \in {"fetched", "data"} =>
        /\ \A i \in 1..Len(trace) : trace[i].completion # "not reached"
        /\ failure # "TypeError"

(***************************************************************************)
(* _synthesize_single_report: the ranked suggestions, on their own         *)
(***************************************************************************)
MaxPrSuggested    == 3   \* most suggestions of the PR analysis
MaxIssueSuggested == 1   \* most suggestions of the issue analysis

\* the titles a suggestion may carry; "" stands for a missing or empty title
\* (suggestion.get('title', '') gives '' for both)
Titles == {"A", "a", "b", "C", ""}

\* C14 mutant: titles are compared as they are written
LowerKept(title) == title

\* str.lower()
Lower(title) ==
    CASE title = "A" -> "a" [] title = "C" -> "c" [] OTHER -> title

\* a suggestion: its title, and the place it holds in the input (what tells
\* two instances with the same title apart)
Suggestion(title, at) == [title |-> title, at |-> at]
Suggestions(titles, from) == [i \in 1..Len(titles) |-> Suggestion(titles[i], from + i)]

\* _rank_suggestions: the loop from the i-th suggestion on
RECURSIVE RankFrom(_, _, _, _)
RankFrom(suggestions, i, seen_titles, unique_suggestions) ==
    IF i > Len(suggestions) THEN unique_suggestions
    ELSE LET title == Lower(suggestions[i].title) IN
         IF title # "" /\ title \notin seen_titles
         THEN RankFrom(suggestions, i + 1, seen_titles \cup {title},
                       Append(unique_suggestions, suggestions[i]))
         ELSE RankFrom(suggestions, i + 1, seen_titles, unique_suggestions)

_rank_suggestions(suggestions) == RankFrom(suggestions, 1, {}, <<>>)

\* ranked_suggestions[:10]
RankedLimit == 10

\* C35 mutant: all ranked suggestions are kept
RankedSuggestionsUncut(pr, issue) == _rank_suggestions(pr \o issue)

\* the ranked_suggestions entry of _synthesize_single_report: the PR
\* analysis' suggestions, then the issue analysis', ranked, the first ten kept
RankedSuggestions(pr, issue) ==
    LET all_suggestions == pr \o issue
        ranked == _rank_suggestions(all_suggestions)
    IN  SubSeq(ranked, 1, Min(Len(ranked), RankedLimit))

InitRank ==
    /\ \E a \in SeqsUpTo(Titles, MaxPrSuggested), b \in SeqsUpTo(Titles, MaxIssueSuggested) :
          /\ pr_suggested = Suggestions(a, 0)
          /\ issue_suggested = Suggestions(b, Len(a))
    /\ ranked_suggestions = <<>> /\ ranked_done = FALSE
    /\ response = <<>> /\ ExtractIdle
    /\ ValidateIdle
    /\ RunIdle
    /\ TimedIdle /\ CreateIdle /\ MoreIdle

Rank ==
    /\ ~ranked_done
    /\ ranked_suggestions' = RankedSuggestions(pr_suggested, issue_suggested)
    /\ ranked_done' = TRUE
    /\ UNCHANGED <<pr_suggested, issue_suggested, extract_vars, validate_vars, run_vars,
                   timed_vars, create_vars, more_vars>>

NextRank == Rank
SpecRank == InitRank /\ [][NextRank]_vars

\* the input of the ranking, and the places of the first titled instance of
\* each lower-cased title in it
AllSuggested == pr_suggested \o issue_suggested
\* two titles that differ at most in the case of their letters
SameButCase(s, t) == s = t \/ {s, t} = {"A", "a"}
FirstSeen ==
    {i \in 1..Len(AllSuggested) :
        /\ AllSuggested[i].title # ""
        /\ \A j \in 1..(i - 1) : ~SameButCase(AllSuggested[j].title, AllSuggested[i].title)}

MaxRuns == 3   \* most runs made on the orchestrator

\* the timer a stage runs under; the "validation" timer covers the validation
\* call and the refinement call
TimerOf(stage) ==
    CASE stage = "SCANNING" -> "scan" [] stage = "ANALYZING" -> "analysis"
      [] stage = "CREATING" -> "creation" [] stage = "VALIDATING" -> "validation"
TimedStages == {"SCANNING", "ANALYZING", "CREATING", "VALIDATING"}
TimedAfter(stage) ==
    CASE stage = "SCANNING" -> "ANALYZING" [] stage = "ANALYZING" -> "CREATING"
      [] stage = "CREATING" -> "VALIDATING" [] stage = "VALIDATING" -> "COMPILING"

\* _compile_final_result: the result holds what get_all_metrics returned
_compile_final_result(mon, n) ==
    [success |-> TRUE, run |-> n, performance |-> get_all_metrics(mon)]

\* assessment.metadata.performance of a result, read when the monitor is mon
PerformanceOf(result, mon) ==
    IF result.performance.shared THEN mon.metrics ELSE result.performance.metrics

\* _print_summary formats the duration of each timer that has an entry with
\* ":.2f"; the duration of a timer started and not ended is None, which
\* cannot be formatted (TypeError)
SummaryRaises(mon) ==
    \E t \in Timers : mon.metrics[t].present /\ mon.metrics[t].duration = NoTime

\* generate_assessment up to its first await
TimedStart(given) ==
    /\ timed_pc = "idle"
    /\ runs < MaxRuns
    /\ runs' = runs + 1
    /\ performance' = start_timer(performance, "total", clock)
    /\ clock' = clock + 1
    /\ timed_pc' = IF ScanNeeded(given) THEN "SCANNING" ELSE StageAfter("SCANNING")
    /\ UNCHANGED <<returned, rank_vars, create_vars, extract_vars, validate_vars, run_vars,
                   more_vars>>

\* one stage: its timer is started, the agents are awaited, and the timer is
\* ended unless the await raised (the exception leaves generate_assessment)
TimedStage(stage, raised) ==
    /\ timed_pc = stage
    /\ \E started \in {start_timer(performance, TimerOf(stage), clock)} :
         IF raised
         THEN /\ performance' = started
              /\ clock' = clock + 1
              /\ timed_pc' = "idle"
         ELSE /\ performance' = end_timer(started, TimerOf(stage), clock + 1)
              /\ clock' = clock + 2
              /\ timed_pc' = TimedAfter(stage)
    /\ UNCHANGED <<runs, returned, rank_vars, create_vars, extract_vars, validate_vars,
                   run_vars, more_vars>>

\* the end of the run: the result is compiled, the "total" timer ended, the
\* summary printed and the result returned
TimedReturn ==
    /\ timed_pc = "COMPILING"
    /\ \E result \in {_compile_final_result(performance, runs)},
          ended \in {end_timer(performance, "total", clock)} :
         /\ performance' = ended
         /\ returned' =
              IF SummaryRaises(ended) THEN returned
              ELSE Append(returned, [result |-> result,
                                     performance |-> PerformanceOf(result, ended)])
    /\ clock' = clock + 1
    /\ timed_pc' = "idle"
    /\ UNCHANGED <<runs, rank_vars, create_vars, extract_vars, validate_vars, run_vars,
                   more_vars>>

InitTimed ==
    /\ TimedIdle
    /\ RankIdle /\ CreateIdle /\ MoreIdle
    /\ response = <<>> /\ ExtractIdle
    /\ ValidateIdle
    /\ RunIdle

NextTimed ==
    \/ \E given \in RepoInputs : TimedStart(given)
    \/ \E stage \in TimedStages, raised \in BOOLEAN : TimedStage(stage, raised)
    \/ TimedReturn

SpecTimed == InitTimed /\ [][NextTimed]_vars

\* C18 as claimed: a result that generate_assessment has returned reads the
\* same ever after, its performance metrics included
C18_ReturnedResultNeverChanges ==
    \A i \in 1..Len(returned) :
        PerformanceOf(returned[i].result, performance) = returned[i].performance

(***************************************************************************)
(* ProblemCreatorAgent.create_problem called on its own, next to the runs  *)
(* of the orchestrator                                                     *)
(***************************************************************************)
\* the improvement contexts a caller may put on a report: none, an empty
\* dict, a dict with one or both of the members create_problem reads
ImprovementContexts ==
    {NoContext} \cup
    {[given |-> TRUE, members |-> m,
      original_problem |->
          IF "original_problem" \in m THEN <<LBrace, "title:", "P1", RBrace>> ELSE None,
      validation_feedback |->
          IF "validation_feedback" \in m THEN <<LBrace, "overall_score:", "84", RBrace>>
          ELSE None] : m \in SUBSET ContextMembers}

\* the reports a caller may pass: a synthesized profile and a context
CreatorReports ==
    {[NoReport EXCEPT !.repository_profile = RepositoryProfile(repo),
                      !.improvement_context = context] :
        repo \in FetchedRepositories, context \in ImprovementContexts}

\* one call of create_problem by a caller other than the orchestrator
CreateAlone(repository_report, client) ==
    /\ pc = "idle"
    /\ creator_call = NotCreated
    /\ creator_call' = [kind |-> "called", report |-> repository_report,
                        mode |-> ModeOf(repository_report),
                        out |-> create_problem(repository_report, client)]
    /\ UNCHANGED <<rank_vars, timed_vars, extract_vars, validate_vars, run_vars, more_vars>>

\* either create_problem is called on its own, or the orchestrator runs
NextCreate ==
    \/ \E report \in CreatorReports, c \in Client(CreatorTexts) : CreateAlone(report, c)
    \/ creator_call = NotCreated /\ Next

SpecCreate == Init /\ [][NextCreate]_vars

\* the creator calls of the run that come before call i
CreatorCallsBefore(i) == {j \in CallsOf("problem_creator") : j < i}

\* C19: create_problem is in refinement mode exactly when the improvement
\* context of its report is a dict with at least one member, and in creation
\* mode otherwise (no context, or an empty one); in refinement mode the
\* repository profile is not read.  In a run of the orchestrator the first
\* creator call is in creation mode and the second, the last, in refinement
\* mode.
C19_ModeByContext ==
    /\ creator_call.kind = "called" =>
          /\ creator_call.mode = "refinement" <=>
                /\ creator_call.report.improvement_context.given
                /\ creator_call.report.improvement_context.members # {}
          /\ creator_call.mode \in {"creation", "refinement"}
          /\ creator_call.out.exc = "TypeError" => creator_call.mode = "creation"
    /\ \A i \in CallsOf("problem_creator") :
          /\ Cardinality(CreatorCallsBefore(i)) <= 1
          /\ trace[i].mode =
                IF CreatorCallsBefore(i) = {} THEN "creation" ELSE "refinement"

\* C19 witness: create_problem called with a report that carries an empty
\* improvement context returned a problem made in creation mode
C19_Witness ==
    /\ creator_call.kind = "called"
    /\ creator_call.report.improvement_context.given
    /\ creator_call.report.improvement_context.members = {}
    /\ creator_call.mode = "creation"
    /\ creator_call.out.kind = "return"

\* C19 as claimed: refinement mode exactly when the report carries an
\* improvement context
C19_ModeByPresence ==
    creator_call.kind = "called" =>
        (creator_call.mode = "refinement" <=>
            creator_call.report.improvement_context.given)

(***************************************************************************)
(* The notification log used on its own: any sequence of sends,            *)
(* broadcasts, responses, reads and clears                                 *)
(***************************************************************************)
MaxSends == 3   \* most messages sent

\* conversation ids of the messages: the empty string is the default of
\* A2AMessage.conversation_id
ConversationIds == {"", "c1", "c2"}
\* the argument of a read or a clear: a conversation id, or none (None)
ConversationArgs == ConversationIds \cup {"None"}

\* self, as one value
Log == [message_history |-> message_history, conversation_index |-> conversation_index]

\* what a sending call leaves behind
Sent(op, conversation_id, sent) ==
    /\ message_history' = sent.log.message_history
    /\ conversation_index' = sent.log.conversation_index
    /\ next_message_id' = next_message_id + 1
    /\ a2a_out' = [op |-> op, arg |-> conversation_id, message |-> sent.message,
                   messages |-> <<>>, before |-> message_history]
    /\ UNCHANGED but_a2a

SendMessage(conversation_id) ==
    /\ next_message_id <= MaxSends
    /\ \E sent \in {send_message(Log, next_message_id, "github_scanner", "orchestrator",
                                  "d", 0, conversation_id, "request")} :
         Sent("send_message", conversation_id, sent)

BroadcastMessage(conversation_id) ==
    /\ next_message_id <= MaxSends
    /\ \E sent \in {broadcast_message(Log, next_message_id, "github_scanner", "d",
                                       conversation_id)} :
         Sent("broadcast_message", conversation_id, sent)

\* a response to the message sent last
SendResponse(conversation_id) ==
    /\ next_message_id <= MaxSends
    /\ next_message_id > 1
    /\ \E sent \in {send_response(Log, next_message_id, "github_scanner", "orchestrator",
                                   "d", conversation_id, next_message_id - 1)} :
         Sent("send_response", conversation_id, sent)

GetMessageHistory(conversation_id) ==
    /\ a2a_out' = [op |-> "get_message_history", arg |-> conversation_id,
                   message |-> NoMessage,
                   messages |-> get_message_history(Log, conversation_id),
                   before |-> message_history]
    /\ UNCHANGED <<message_history, conversation_index, next_message_id, but_a2a>>

ClearHistory(conversation_id) ==
    /\ \E cleared \in {clear_history(Log, conversation_id)} :
         /\ message_history' = cleared.message_history
         /\ conversation_index' = cleared.conversation_index
    /\ a2a_out' = [op |-> "clear_history", arg |-> conversation_id, message |-> NoMessage,
                   messages |-> <<>>, before |-> message_history]
    /\ UNCHANGED <<next_message_id, but_a2a>>

InitA2A ==
    /\ A2AIdle /\ LaterIdle
    /\ RankIdle /\ TimedIdle /\ CreateIdle
    /\ response = <<>> /\ ExtractIdle
    /\ ValidateIdle
    /\ RunIdle

NextA2A ==
    \/ \E c \in ConversationIds : SendMessage(c)
    \/ \E c \in ConversationIds : BroadcastMessage(c)
    \/ \E c \in ConversationIds : SendResponse(c)
    \/ \E c \in ConversationArgs : GetMessageHistory(c)
    \/ \E c \in ConversationArgs : ClearHistory(c)

SpecA2A == InitA2A /\ [][NextA2A]_vars

\* C21 as claimed: for every conversation id c the index holds exactly the
\* messages of the history that are of c, in their order; a read with c
\* gives exactly those; a send appends one message and leaves the earlier
\* ones as they were
C21_IndexAndReadByConversation ==
    /\ \A c \in ConversationIds :
          OfConversation(message_history, c, TRUE) =
              IF c \in DOMAIN conversation_index THEN conversation_index[c] ELSE <<>>
    /\ (a2a_out.op = "get_message_history" /\ a2a_out.arg \in ConversationIds) =>
          a2a_out.messages = OfConversation(message_history, a2a_out.arg, TRUE)
    /\ a2a_out.op \in {"send_message", "broadcast_message", "send_response"} =>
          message_history = Append(a2a_out.before, a2a_out.message)

\* C22 as claimed: a clear with a conversation id, the empty one included,
\* takes exactly the messages of that conversation out of the history and
\* the index; a clear without an argument empties both
C22_ClearOneConversation ==
    a2a_out.op = "clear_history" =>
        /\ a2a_out.arg \in ConversationIds =>
              /\ message_history = OfConversation(a2a_out.before, a2a_out.arg, FALSE)
              /\ a2a_out.arg \notin DOMAIN conversation_index
        /\ a2a_out.arg = "None" =>
              message_history = <<>> /\ conversation_index = <<>>

\* the message a send with the given recipient and type would have logged in
\* the place of the last call's message
AsSentTo(recipient_id, message_type) ==
    A2AMessage(a2a_out.message.message_id, a2a_out.message.sender_id, recipient_id,
               message_type, a2a_out.message.data, 0, a2a_out.arg)

\* C23: every message logged by broadcast_message has the type "broadcast"
\* and the recipient "all_agents", and is otherwise the message send_message
\* logs for the same sender, data and conversation id: it is appended to the
\* history and to the index of its conversation like any other.
C23_BroadcastIsSendToAllAgents ==
    a2a_out.op = "broadcast_message" =>
        /\ a2a_out.message = AsSentTo("all_agents", "broadcast")
        /\ message_history = Append(a2a_out.before, a2a_out.message)
        /\ a2a_out.arg \in DOMAIN conversation_index
        /\ conversation_index[a2a_out.arg] =
              Append(OfConversation(a2a_out.before, a2a_out.arg, TRUE), a2a_out.message)

\* C23 witness: a broadcast made in a conversation that held a message
C23_Witness ==
    /\ a2a_out.op = "broadcast_message"
    /\ a2a_out.arg = "c1"
    /\ Len(conversation_index["c1"]) = 2
    /\ message_history[Len(message_history)].recipient_id = "all_agents"

\* C23 as claimed: the recipient of a broadcast is "all"
C23_BroadcastIsSendToAll ==
    a2a_out.op = "broadcast_message" => a2a_out.message = AsSentTo("all", "broadcast")

(***************************************************************************)
(* Two runs of generate_assessment side by side.  Both get the same        *)
(* dataset and the same answers of the collaborators; each has a log of    *)
(* its own, and the two logs hold different messages when the runs start.  *)
(* A run is a record; each step of generate_assessment is an operator on   *)
(* that record, applied to both runs with the same input.                  *)
(***************************************************************************)
\* self.conversation_id: "orchestrator_" and the second of the construction
OrchestratorConversation == "orchestrator_1"

\* "if conversation_id: await a2a_protocol.send_message(...)": the message
\* is logged, what send_message returns is dropped.  The uuid of the
\* message is written as its position in the log.
Notify(log, conversation_id, sender_id, recipient_id, data, message_type) ==
    IF FalsyId(conversation_id) THEN log
    ELSE send_message(log, Len(log.message_history) + 1, sender_id, recipient_id, data, 0,
                      conversation_id, message_type).log

\* the records of the else branch of an agent, for the two messages a
\* response without a usable object leaves ("error" is no key of the
\* responses drawn here)
ElseRecords(agent) ==
    {IF agent = "qa_validator" THEN FailingValidation(e) ELSE DefaultRecord(agent, e) :
        e \in {<<"Failed to extract JSON">>, <<"Unknown parsing error">>}}

\* C34 mutant: the reply is sent whenever the agent returns a record
AnswersWhenReturned(agent, out) == out.kind = "return"

\* the success branch of an agent: "if analysis and not
\* analysis.get('parse_failed')", reached by a call that returns what it
\* decoded and not the record of the else branch
Answers(agent, out) == out.kind = "return" /\ out.val \notin ElseRecords(agent)

\* C24 mutant: an agent that finds its own reply in the conversation's log
\* does not answer again
AgentTurnOnce(log, conversation_id, agent, recipient_id, reply_type, client, out) ==
    [log |-> log,
     out |-> IF \E i \in 1..Len(log.message_history) :
                   /\ log.message_history[i].sender_id = agent
                   /\ log.message_history[i].message_type = reply_type
                   /\ log.message_history[i].conversation_id = conversation_id
             THEN Raised("AlreadyAnswered") ELSE out]

\* the turn of an agent, from its first message on: a notification before
\* the call of run, the notification of run when the completion returned,
\* and the reply of the success branch.  The agent returns (or raises) what
\* it got from the completion: nothing is read from the log.
AgentTurn(log, conversation_id, agent, recipient_id, reply_type, client, out) ==
    LET started == Notify(log, conversation_id, agent, "orchestrator", "started",
                          "notification")
        ran == IF client.raised THEN started
               ELSE Notify(started, conversation_id, agent, "orchestrator", "completed",
                           "notification")
        replied == IF Answers(agent, out)
                   THEN Notify(ran, conversation_id, agent, recipient_id, "completed",
                               reply_type)
                   ELSE ran
    IN  [log |-> replied, out |-> out]

\* an analyser's completion client before the analysis
NotAsked == [raised |-> FALSE, text |-> <<"not asked">>]

\* a run not started, on a log; answers is what the completion client of
\* each analyser did
NewRun(log) ==
    [pc |-> "idle", repository |-> NoRepository, analysis_report |-> NoReport,
     problem |-> None, validation |-> NotCalled, final_result |-> NoResult,
     failure |-> "none", stages |-> <<>>, log |-> log,
     answers |-> [a \in Analyzers |-> NotAsked]]

Moved(r, stage) == [r EXCEPT !.pc = stage, !.stages = Append(@, stage)]
Failed(r, exc) == [Moved(r, "FAILED") EXCEPT !.failure = exc]
After(r, stage, out) ==
    IF out.kind = "return" THEN Moved(r, StageAfter(stage)) ELSE Failed(r, out.exc)

\* generate_assessment up to the scan or, with a dataset given, the analysis
RunStart(r, given, given_repository) ==
    IF r.pc # "idle" THEN r
    ELSE [Moved(r, IF ScanNeeded(given) THEN "SCANNING" ELSE StageAfter("SCANNING"))
             EXCEPT !.repository = given_repository]

\* _scan_repository: the scanner notifies, scans, and replies when it has
\* a dataset
RunScan(r, fetch, fetched) ==
    IF r.pc # "SCANNING" THEN r
    ELSE LET started == Notify(r.log, OrchestratorConversation, "github_scanner",
                               "orchestrator", "scanning", "notification")
             out == scan_repository(fetch)
         IN  IF out.kind = "return"
             THEN [Moved(r, StageAfter("SCANNING")) EXCEPT
                      !.repository = fetched,
                      !.log = Notify(started, OrchestratorConversation, "github_scanner",
                                     "orchestrator", "completed", "response")]
             ELSE [Failed(r, out.exc) EXCEPT !.log = started]

\* the turn of one analyser
AnalyzerTurn(log, agent, client) ==
    Only({AgentTurn(log, OrchestratorConversation, agent, "orchestrator", "response",
                    client, out) : out \in {AgentRecord(agent, client)}})

\* the turns of the analysers, in the order of their tasks, each on the log
\* the turn before left
RECURSIVE TurnsFrom(_, _, _)
TurnsFrom(turns, log, clients) ==
    IF Len(turns) = Len(AnalyzerOrder) THEN turns
    ELSE Only({TurnsFrom(Append(turns, t), t.log, clients) :
                  t \in {AnalyzerTurn(log, AnalyzerOrder[Len(turns) + 1],
                                      clients[AnalyzerOrder[Len(turns) + 1]])}})

\* results = await asyncio.gather(*tasks), then the synthesis
Joined(r, turns) ==
    LET outs == [a \in Analyzers |-> turns[OrderOf(a)].out]
        tasks == [a \in Analyzers |->
                     IF outs[a].kind = "return" THEN "done" ELSE "raised"]
        logged == [r EXCEPT !.log = turns[Len(turns)].log]
    IN  IF JoinFails(tasks) THEN Failed(logged, outs[FirstRaised(tasks)].exc)
        ELSE [Moved(logged, StageAfter("ANALYZING")) EXCEPT
                 !.analysis_report = Synthesize(outs, r.repository)]

\* _run_single_analysis: the four analysers one after the other, then the
\* join and the synthesis
RunAnalyze(r, clients) ==
    IF r.pc # "ANALYZING" THEN r
    ELSE Only({[Joined(r, turns) EXCEPT !.answers = clients] :
                  turns \in {TurnsFrom(<<>>, r.log, clients)}})

\* the turn of the creator: a prompt that raises comes before any message
CreatorTurn(log, repository_report, client) ==
    IF PromptRaises(repository_report) THEN [log |-> log, out |-> Raised("TypeError")]
    ELSE Only({AgentTurn(log, OrchestratorConversation, "problem_creator", "qa_validator",
                         "request", client, out) :
                  out \in {create_problem(repository_report, client)}})

\* _create_problem
RunCreate(r, client) ==
    IF r.pc # "CREATING" THEN r
    ELSE Only({[After(r, "CREATING", turn.out) EXCEPT
                   !.problem = turn.out.val, !.log = turn.log] :
                  turn \in {CreatorTurn(r.log, r.analysis_report, client)}})

\* the turn of the validator
ValidatorTurn(log, client) ==
    Only({AgentTurn(log, OrchestratorConversation, "qa_validator", "orchestrator",
                    "response", client, out) :
             out \in {validate_problem(DefaultQualityThreshold, client)}})

\* _validate_and_improve, the validation
RunValidate(r, client) ==
    IF r.pc # "VALIDATING" THEN r
    ELSE Only({[(IF turn.out.kind = "return"
                 THEN Moved(r, AfterValidation(turn.out.approved))
                 ELSE Failed(r, turn.out.exc))
                   EXCEPT !.validation = turn.out, !.log = turn.log] :
                  turn \in {ValidatorTurn(r.log, client)}})

\* the report with the improvement context of _validate_and_improve
ReportToRefine(r) ==
    [r.analysis_report EXCEPT !.improvement_context =
        [given |-> TRUE, members |-> ContextMembers, original_problem |-> r.problem,
         validation_feedback |-> r.validation.val]]

\* _validate_and_improve, the refinement, and the compiled result
RunRefine(r, client) ==
    IF r.pc # "REFINING" THEN r
    ELSE Only({[After(r, "REFINING", turn.out) EXCEPT
                   !.log = turn.log,
                   !.final_result =
                       IF turn.out.kind = "return"
                       THEN CompileFinalResult(ValidateAndImproveResult(
                                r.problem, turn.out.val, r.validation.val),
                                r.analysis_report)
                       ELSE @] :
                  turn \in {CreatorTurn(r.log, report, client) :
                               report \in {ReportToRefine(r)}}})

\* what the log may hold when a run starts: nothing, a reply of the creator
\* in a conversation of the same id (an orchestrator made in the same
\* second), a notification of another conversation
EarlierLogs ==
    {NewLog,
     Notify(NewLog, OrchestratorConversation, "problem_creator", "qa_validator",
            "completed", "request"),
     Notify(NewLog, "orchestrator_0", "github_scanner", "orchestrator", "scanning",
            "notification")}

\* the answers of the four analysers: one answer for all, and at most one
\* analyser whose completion raises
AnalyzerClients ==
    {[a \in Analyzers |-> IF a = bad THEN [raised |-> TRUE, text |-> <<>>] ELSE c] :
        c \in Client(AnalyzerTexts), bad \in Analyzers \cup {"none"}}

\* some run of the two is at the stage
At(stage) == \E i \in DOMAIN twin : twin[i].pc = stage

TwinStart(given, given_repository) ==
    /\ At("idle")
    /\ twin' = [i \in DOMAIN twin |-> RunStart(twin[i], given, given_repository)]
    /\ UNCHANGED but_twin

TwinScan(fetch, fetched) ==
    /\ At("SCANNING")
    /\ twin' = [i \in DOMAIN twin |-> RunScan(twin[i], fetch, fetched)]
    /\ UNCHANGED but_twin

TwinAnalyze(clients) ==
    /\ At("ANALYZING")
    /\ twin' = [i \in DOMAIN twin |-> RunAnalyze(twin[i], clients)]
    /\ UNCHANGED but_twin

TwinCreate(client) ==
    /\ At("CREATING")
    /\ twin' = [i \in DOMAIN twin |-> RunCreate(twin[i], client)]
    /\ UNCHANGED but_twin

TwinValidate(client) ==
    /\ At("VALIDATING")
    /\ twin' = [i \in DOMAIN twin |-> RunValidate(twin[i], client)]
    /\ UNCHANGED but_twin

TwinRefine(client) ==
    /\ At("REFINING")
    /\ twin' = [i \in DOMAIN twin |-> RunRefine(twin[i], client)]
    /\ UNCHANGED but_twin

InitTwin ==
    /\ \E earlier \in EarlierLogs : \E other \in EarlierLogs \ {earlier} :
          twin = <<NewRun(earlier), NewRun(other)>>
    /\ A2AIdle /\ AgentIdle /\ TimingIdle /\ EntryIdle /\ PromptIdle /\ LastIdle
    /\ RankIdle /\ TimedIdle /\ CreateIdle
    /\ response = <<>> /\ ExtractIdle
    /\ ValidateIdle
    /\ RunIdle

NextTwin ==
    \/ \E given \in RepoInputs : \E r \in GivenRepositories(given) : TwinStart(given, r)
    \/ \E fetch \in FetchOutcomes, r \in FetchedRepositories : TwinScan(fetch, r)
    \/ \E clients \in AnalyzerClients : TwinAnalyze(clients)
    \/ \E c \in Client(CreatorTexts) : TwinCreate(c)
    \/ \E c \in Client(RunValidatorTexts) : TwinValidate(c)
    \/ \E c \in Client(CreatorTexts) : TwinRefine(c)

SpecTwin == InitTwin /\ [][NextTwin]_vars

\* C24: two runs that get the same dataset and the same answers of the
\* collaborators, on logs that held different messages at the start, go
\* through the same stages, end with the same failure or the same result
\* (problem and validation), and hand the same problem from stage to stage.
C24_LogIsObservational ==
    twin # <<>> =>
        /\ twin[1].stages = twin[2].stages
        /\ twin[1].pc = twin[2].pc
        /\ twin[1].failure = twin[2].failure
        /\ twin[1].final_result = twin[2].final_result
        /\ twin[1].problem = twin[2].problem
        /\ twin[1].validation = twin[2].validation

\* C24 witness: both runs are done, each has logged the messages of its
\* agents after what its log held before, and the logs still differ
C24_Witness ==
    /\ twin # <<>>
    /\ twin[1].pc = "DONE" /\ twin[2].pc = "DONE"
    /\ twin[1].final_result.success
    /\ twin[1].log.message_history # twin[2].log.message_history
    /\ Len(twin[1].log.message_history) > 10
    /\ twin[2].log.message_history[1].conversation_id = OrchestratorConversation
    /\ twin[2].log.message_history[1].sender_id = "problem_creator"
(***************************************************************************)
(* BaseGeminiAgent.run, whole: the timer, the completion call, the         *)
(* notification, the return or the raise                                   *)
(***************************************************************************)
MaxAgentRuns == 2   \* most calls of run
MaxElapsed == 2     \* longest time a completion call takes

\* self.name of the agent called
AgentName == "code_analyzer"

\* C25 mutant: the notification is sent whether or not the call returned
RunAgentNotifyingAlways(mon, log, id, conversation_id, client, now, elapsed) ==
    [performance |-> end_timer(start_timer(mon, ExecutionTimer, now), ExecutionTimer,
                               now + elapsed),
     log |-> IF FalsyId(conversation_id) THEN log
             ELSE send_message(log, id, AgentName, "orchestrator",
                               [status |-> "completed", duration |-> elapsed,
                                response_length |-> Len(client.text)],
                               0, conversation_id, "notification").log,
     out |-> run(client)]

\* run(prompt, conversation_id) on the monitor mon and the log, at the time
\* now, with a completion call that takes elapsed and then returns a text
\* or raises.  The timer is started before the call and ended after it, in
\* the try block or in the except clause; the notification is sent only in
\* the try block, under "if conversation_id:", with the duration end_timer
\* returned.
RunAgent(mon, log, id, conversation_id, client, now, elapsed) ==
    LET ended == end_timer(start_timer(mon, ExecutionTimer, now), ExecutionTimer,
                           now + elapsed)
        duration == ended.metrics[ExecutionTimer].duration
    IN  [performance |-> ended,
         log |-> IF client.raised \/ FalsyId(conversation_id) THEN log
                 ELSE send_message(log, id, AgentName, "orchestrator",
                                   [status |-> "completed", duration |-> duration,
                                    response_length |-> Len(client.text)],
                                   0, conversation_id, "notification").log,
         out |-> run(client)]

\* the conversation_id arguments: none (the default), empty, an id
RunConversationArgs == {"None", "", "c1"}

AgentRun(conversation_id, client, elapsed) ==
    /\ next_message_id <= MaxAgentRuns
    /\ \E done \in {RunAgent(last_run.performance, Log, next_message_id, conversation_id,
                               client, clock, elapsed)} :
         /\ message_history' = done.log.message_history
         /\ conversation_index' = done.log.conversation_index
         /\ last_run' = [performance |-> done.performance,
                         call |-> [conversation_id |-> conversation_id,
                                   completion |-> IF client.raised THEN "raised"
                                                  ELSE "returned",
                                   elapsed |-> elapsed, raised |-> done.out.raised,
                                   text |-> done.out.text, before |-> message_history]]
    /\ next_message_id' = next_message_id + 1
    /\ clock' = clock + elapsed
    /\ UNCHANGED but_agent

InitAgent ==
    /\ A2AIdle /\ LaterIdle
    /\ RankIdle /\ TimedIdle /\ CreateIdle
    /\ response = <<>> /\ ExtractIdle
    /\ ValidateIdle
    /\ RunIdle

NextAgent ==
    \E c \in RunConversationArgs, client \in Client(AnalyzerTexts), e \in 0..MaxElapsed :
        AgentRun(c, client, e)

SpecAgent == InitAgent /\ [][NextAgent]_vars

\* the messages a call of run appended to the log
Appended == SubSeq(message_history, Len(last_run.call.before) + 1, Len(message_history))

MaxTimerCalls == 4   \* most timer calls
MaxClock == 4        \* latest time of a call

\* the names the calls are made on
TimedNames == {"scan", "analysis"}

\* the sum of the durations of the operations of a set
RECURSIVE TotalTime(_, _)
TotalTime(mon, names) ==
    IF names = {} THEN 0
    ELSE \* forced: the member is chosen once
         Only({mon.metrics[n].duration + TotalTime(mon, names \ {n}) :
                  n \in {CHOOSE m \in names : TRUE}})

\* C27 mutant: every operation that was started counts
get_summary_started(mon) ==
    [total_operations |-> Cardinality({n \in DOMAIN mon.metrics : mon.metrics[n].present}),
     total_time |-> 0, operations |-> <<>>]

\* get_summary: the operations whose duration is not None, their number,
\* the sum of their durations, and the duration and count of each (the
\* percentage, a quotient of these, is left out)
get_summary(mon) ==
    LET completed_ops == {n \in DOMAIN mon.metrics :
                             mon.metrics[n].present /\ mon.metrics[n].duration # NoTime}
    IN  [total_operations |-> Cardinality(completed_ops),
         total_time |-> TotalTime(mon, completed_ops),
         operations |-> [n \in completed_ops |->
                            [duration |-> mon.metrics[n].duration,
                             count |-> mon.metrics[n].count]]]

\* what end_timer returns: the duration, or None for an operation that is
\* not in metrics or has no start time
EndTimerReturns(mon, operation, now) ==
    IF ~mon.metrics[operation].present \/ mon.metrics[operation].start_time = NoTime
    THEN NoTime
    ELSE end_timer(mon, operation, now).metrics[operation].duration

Called(op, operation, ret) ==
    timing' = [calls |-> Append(timing.calls, [op |-> op, operation |-> operation,
                                               at |-> clock, returned |-> ret]),
               before |-> performance]

StartTimer(operation) ==
    /\ Len(timing.calls) < MaxTimerCalls
    /\ performance' = start_timer(performance, operation, clock)
    /\ Called("start_timer", operation, NoTime)
    /\ UNCHANGED <<clock, but_timing>>

EndTimer(operation) ==
    /\ Len(timing.calls) < MaxTimerCalls
    /\ performance' = end_timer(performance, operation, clock)
    /\ Called("end_timer", operation, EndTimerReturns(performance, operation, clock))
    /\ UNCHANGED <<clock, but_timing>>

\* time.time() goes on between two calls
Pass ==
    /\ clock < MaxClock
    /\ clock' = clock + 1
    /\ UNCHANGED <<performance, timing, but_timing>>

InitTiming ==
    /\ A2AIdle /\ LaterIdle
    /\ RankIdle /\ TimedIdle /\ CreateIdle
    /\ response = <<>> /\ ExtractIdle
    /\ ValidateIdle
    /\ RunIdle

NextTiming ==
    \/ \E n \in TimedNames : StartTimer(n)
    \/ \E n \in TimedNames : EndTimer(n)
    \/ Pass

SpecTiming == InitTiming /\ [][NextTiming]_vars

\* the last call made, and the calls of one kind made on a name
LastCall == timing.calls[Len(timing.calls)]
CallsOn(op, operation) ==
    {i \in 1..Len(timing.calls) :
        timing.calls[i].op = op /\ timing.calls[i].operation = operation}

\* C26: the duration an end_timer returns is the time from the most recent
\* start_timer of that name to the end_timer, whatever starts and ends of the
\* name came before (nothing is added up), and it is the duration recorded
\* for the name; an end_timer on a name never started returns None.
C26_DurationFromLatestStart ==
    (timing.calls # <<>> /\ LastCall.op = "end_timer") =>
        IF CallsOn("start_timer", LastCall.operation) = {}
        THEN LastCall.returned = NoTime
        ELSE /\ LastCall.returned =
                  LastCall.at
                    - timing.calls[LastOf(CallsOn("start_timer", LastCall.operation))].at
             /\ performance.metrics[LastCall.operation].duration = LastCall.returned

\* C26 witness: a name timed once (one unit) is started again, two units
\* after its first start, and ended one unit later
C26_Witness ==
    /\ Len(timing.calls) = 4
    /\ \A i \in 1..4 : timing.calls[i].operation = "scan"
    /\ timing.calls[1].op = "start_timer" /\ timing.calls[1].at = 1
    /\ timing.calls[2].op = "end_timer" /\ timing.calls[2].returned = 1
    /\ timing.calls[3].op = "start_timer" /\ timing.calls[3].at = 3
    /\ timing.calls[4].op = "end_timer" /\ timing.calls[4].at = 4
    /\ timing.calls[4].returned = 1

\* the names an end_timer has returned a duration for
Completed ==
    {n \in Timers : \E i \in CallsOn("end_timer", n) : timing.calls[i].returned # NoTime}

\* C27: a start_timer or end_timer on one name leaves the start time, end
\* time, duration and count of every other name, and its number of starts,
\* as they were; and at any time get_summary().total_operations is the
\* number of names for which an end_timer has returned a duration.
C27_TimersIndependent ==
    /\ timing.calls # <<>> =>
          \A m \in Timers \ {LastCall.operation} :
              /\ performance.metrics[m] = timing.before.metrics[m]
              /\ performance.operation_counts[m] = timing.before.operation_counts[m]
    /\ get_summary(performance).total_operations = Cardinality(Completed)

\* C27 witness: one name has been timed, the other is started and not
\* ended; the summary counts one operation
C27_Witness ==
    /\ Len(timing.calls) = 3
    /\ LastCall.op = "start_timer" /\ LastCall.operation = "analysis"
    /\ performance.metrics["scan"].duration = 2
    /\ performance.metrics["analysis"].start_time = 4
    /\ performance.metrics["analysis"].duration = NoTime
    /\ get_summary(performance).total_operations = 1
    /\ get_summary(performance).total_time = 2

(***************************************************************************)
(* run_assessment(request), the entry point of the Agent Engine: one run   *)
(* of generate_assessment on the url of the request, without a dataset,    *)
(* then two prints and the return                                          *)
(***************************************************************************)
\* the keys of the dict _compile_final_result returns; metadata is a member
\* of the dict under "assessment"
ResultKeys == {"success", "assessment", "debug"}

\* run_assessment from the end of generate_assessment on.  An exception of
\* the generation goes through.  After a return, the print of
\* result['metadata']['processing_time'] reads a key the result does not
\* have: KeyError, before "return result".
run_assessment(generation) ==
    IF generation.kind = "raise"
    THEN [kind |-> "raise", exc |-> generation.exc, result |-> NoResult]
    ELSE IF "metadata" \notin ResultKeys
    THEN [kind |-> "raise", exc |-> "KeyError", result |-> NoResult]
    ELSE [kind |-> "return", exc |-> "none", result |-> generation.result]

\* generate_assessment has returned or raised: run_assessment goes on
RunAssessmentEnds ==
    /\ pc \in {"DONE", "FAILED"}
    /\ entry = NotEntered
    /\ entry' = run_assessment([kind |-> IF pc = "DONE" THEN "return" ELSE "raise",
                                exc |-> failure, result |-> final_result])
    /\ UNCHANGED but_entry

\* the run of run_assessment: no repo_data is passed, so the scan is made
NextEntry ==
    \/ \E given \in {"None"} : \E r \in GivenRepositories(given) : Start(given, r)
    \/ \E fetch \in FetchOutcomes, r \in FetchedRepositories : ScanRepository(fetch, r)
    \/ \E a \in Analyzers : AnalyzerCall(a)
    \/ \E a \in Analyzers, c \in Client(AnalyzerTexts) : AnalyzerReturn(a, c)
    \/ JoinAnalysis
    \/ \E c \in Client(CreatorTexts) : CreateProblem(c)
    \/ \E c \in Client(RunValidatorTexts) : ValidateProblem(c)
    \/ \E c \in Client(CreatorTexts) : RefineProblem(c)
    \/ RunAssessmentEnds

SpecEntry == Init /\ [][NextEntry]_vars

\* C28 as claimed: when generate_assessment has returned, run_assessment
\* returns, and what it returns is the result of the generation
C28_EntryReturnsTheResult ==
    (pc = "DONE" /\ entry # NotEntered) =>
        /\ entry.kind = "return"
        /\ entry.result = final_result
        /\ entry.result.success

(***************************************************************************)
(* DependencyAnalyzerAgent.analyze up to its prompt.  A text is here a     *)
(* sequence of characters; a character is written <<piece, k, j>>: the     *)
(* j-th character of a piece of the k-th entry of the listing.             *)
(***************************************************************************)
MaxDepFiles == 3             \* the dependency files looked for
DepsSummaryLimit == 2000     \* json.dumps(...)[:2000]
ContentLimit == 1000         \* content[:1000] of _fetch_dependencies

\* dep_files of _fetch_dependencies, in the order they are fetched
DepFiles == <<"package.json", "requirements.txt", "Gemfile", "pom.xml", "build.gradle",
              "go.mod", "Cargo.toml">>
NameLen(file) ==
    CASE file = "package.json" -> 12 [] file = "requirements.txt" -> 16
      [] file = "Gemfile" -> 7 [] file = "pom.xml" -> 7 [] file = "build.gradle" -> 12
      [] file = "go.mod" -> 6 [] file = "Cargo.toml" -> 10

\* the content of a fetched file: its length (at most ContentLimit) and
\* its characters, plain ones or newlines
Contents ==
    {[len |-> 0, chars |-> "plain"]} \cup
    [len : {10, ContentLimit}, chars : {"plain", "newline"}]

\* _fetch_dependencies: an entry for each file that is there, in order
RECURSIVE Fetched(_, _)
Fetched(found, k) ==
    IF k > Len(found) THEN <<>>
    ELSE (IF found[k].there THEN <<[file |-> DepFiles[k], content |-> found[k].content]>>
          ELSE <<>>) \o Fetched(found, k + 1)

\* the listings of the datasets: for each file looked for, whether it was
\* found and with what content
DependencyListings ==
    {Fetched(found, 1) :
        found \in [1..Min(MaxDepFiles, Len(DepFiles)) ->
                      {[there |-> FALSE, content |-> [len |-> 0, chars |-> "plain"]]}
                      \cup [there : {TRUE}, content : Contents]]}

\* n characters of a piece
Chars(piece, k, n) == [j \in 1..n |-> <<piece, k, j>>]

\* json.dumps of the characters of a string: a plain character is written
\* as it is, a newline as the two characters \ and n
Escaped(k, content) ==
    IF content.chars = "plain" THEN Chars("c", k, content.len)
    ELSE [j \in 1..(2 * content.len) |->
             IF j % 2 = 1 THEN <<"backslash", k, (j + 1) \div 2>> ELSE <<"n", k, j \div 2>>]

\* json.dumps(..., indent=2) of one entry: the brace and the key "file"
\* (17 characters), the name, the key "content" (19), the content, the
\* closing quote and brace (5)
EntryText(k, dep) ==
    Chars("head", k, 17) \o Chars(dep.file, k, NameLen(dep.file)) \o Chars("mid", k, 19)
      \o Escaped(k, dep.content) \o Chars("tail", k, 5)

\* the entries, a comma and a newline between two of them
RECURSIVE EntriesText(_, _)
EntriesText(deps, k) ==
    IF k > Len(deps) THEN <<>>
    ELSE (IF k > 1 THEN Chars("sep", k, 2) ELSE <<>>) \o EntryText(k, deps[k])
           \o EntriesText(deps, k + 1)

\* json.dumps(dependencies, indent=2): "[]" for the empty list
json_dumps(deps) ==
    IF deps = <<>> THEN Chars("[]", 0, 2)
    ELSE Chars("open", 0, 2) \o EntriesText(deps, 1) \o Chars("close", 0, 2)

\* C29 mutant: the last 2000 characters are kept
SliceTail(text, limit) == SubSeq(text, Len(text) - Min(Len(text), limit) + 1, Len(text))

\* text[:limit]
Slice(text, limit) == SubSeq(text, 1, Min(Len(text), limit))

\* the readme of a dataset: the key may be missing (a dataset not made by
\* the fetch); _fetch_readme returns a text, the empty one for no readme
Readmes == {"absent", "empty", "text"}

\* analyze up to the prompt: deps_summary, and the f-string, in which the
\* readme is sliced ([:500]; a None would raise) and the rest is formatted
dependency_prompt(deps, readme) ==
    IF readme = "null" THEN [kind |-> "raise", exc |-> "TypeError", deps_summary |-> <<>>]
    ELSE [kind |-> "return", exc |-> "none",
          deps_summary |-> Only({Slice(text, DepsSummaryLimit) :
                                    text \in {json_dumps(deps)}})]

BuildPrompt ==
    /\ prompt.built = NotBuilt
    /\ prompt' = [prompt EXCEPT
                     !.built = dependency_prompt(prompt.dependencies, prompt.readme)]
    /\ UNCHANGED but_prompt

InitPrompt ==
    /\ \E deps \in DependencyListings, readme \in Readmes :
          prompt = [dependencies |-> deps, readme |-> readme, built |-> NotBuilt]
    /\ A2AIdle /\ TwinIdle /\ AgentIdle /\ TimingIdle /\ EntryIdle /\ LastIdle
    /\ RankIdle /\ TimedIdle /\ CreateIdle
    /\ response = <<>> /\ ExtractIdle
    /\ ValidateIdle
    /\ RunIdle

NextPrompt == BuildPrompt

SpecPrompt == InitPrompt /\ [][NextPrompt]_vars

\* C29: when the serialized listing is longer than 2000 characters, the
\* prompt is built without an exception and the part of the listing in it
\* has exactly 2000 characters, the i-th of them the i-th character of the
\* serialized listing.
C29_FirstCharactersEmbedded ==
    prompt.built # NotBuilt =>
        \A text \in {json_dumps(prompt.dependencies)} :
            Len(text) > DepsSummaryLimit =>
                /\ prompt.built.kind = "return"
                /\ Len(prompt.built.deps_summary) = DepsSummaryLimit
                /\ \A i \in 1..DepsSummaryLimit : prompt.built.deps_summary[i] = text[i]

\* C29 witness: a listing of several files, longer than 2000 characters
\* when serialized, cut between the two characters of an escaped newline
C29_Witness ==
    /\ prompt.built.kind = "return"
    /\ Len(prompt.dependencies) > 1
    /\ Len(json_dumps(prompt.dependencies)) > DepsSummaryLimit
    /\ Len(prompt.built.deps_summary) = DepsSummaryLimit
    /\ prompt.built.deps_summary[DepsSummaryLimit][1] = "backslash"

\* C30: every call of scan_repository returns a dataset, the mock one when
\* there was no client or the fetch raised (violated: the mock fallback
\* raises NameError and the call returns nothing)
C30_ScanAlwaysReturnsDataset ==
    \A i \in DOMAIN trace :
        trace[i].agent = "github_scanner" =>
            /\ trace[i].outcome = "return"
            /\ failure = "none" \/ Len(trace) > i
            /\ (trace[i].completion # "fetch returned" /\ Len(trace) = i) => repo_data = "mock"

(***************************************************************************)
(* The pull requests of a dataset: what _run_pr_analyzer counts and shows, *)
(* and what PRAnalyzerAgent.analyze puts in its prompt.                    *)
(***************************************************************************)
MaxPullRequests == 11    \* most pull requests in a dataset
PrsInPrompt == 10        \* repo_data.get('pullRequests', [])[:10]
PrsDisplayed == 3        \* prs[:3]

\* n pull-request records, the most recently updated first
PullRequests(n) == [i \in 1..n |-> <<"pr", i>>]

\* fetch_repository_data returns its pull requests under 'pull_requests'
FetchedDatasets ==
    {[origin |-> "fetch", pull_requests |-> PullRequests(n), pullRequests |-> Missing] :
        n \in 0..MaxPullRequests}

\* a dataset handed to generate_assessment by its caller may have either
\* key, both or none
GivenDatasets ==
    [origin : {"given"},
     pull_requests : {Missing} \cup {PullRequests(n) : n \in 0..MaxPullRequests},
     pullRequests : {Missing} \cup {PullRequests(n) : n \in 0..MaxPullRequests}]

\* repo_data.get('pullRequests', [])
PrsOfPrompt(dataset) ==
    IF dataset.pullRequests = Missing THEN <<>> ELSE dataset.pullRequests

\* repo_data.get('pull_requests', [])
PrsOfOrchestrator(dataset) ==
    IF dataset.pull_requests = Missing THEN <<>> ELSE dataset.pull_requests

\* _run_pr_analyzer: the count and the titles printed, then analyze, whose
\* prompt holds the serialization of the first ten records it reads
RunPrAnalyzer ==
    /\ ~pr_call.called
    /\ pr_call' = [pr_call EXCEPT
                      !.called = TRUE,
                      !.counted = Len(PrsOfOrchestrator(pr_call.dataset)),
                      !.displayed = Slice(PrsOfOrchestrator(pr_call.dataset), PrsDisplayed),
                      !.embedded = Slice(PrsOfPrompt(pr_call.dataset), PrsInPrompt)]
    /\ UNCHANGED but_pr

InitPr ==
    /\ \E dataset \in FetchedDatasets \cup GivenDatasets :
          pr_call = [dataset |-> dataset, called |-> FALSE, counted |-> 0,
                     displayed |-> <<>>, embedded |-> <<>>]
    /\ A2AIdle /\ TwinIdle /\ AgentIdle /\ TimingIdle /\ EntryIdle /\ PromptIdle
    /\ IsolationIdle /\ WebIdle
    /\ RankIdle /\ TimedIdle /\ CreateIdle
    /\ response = <<>> /\ ExtractIdle
    /\ ValidateIdle
    /\ RunIdle

NextPr == RunPrAnalyzer

SpecPr == InitPr /\ [][NextPr]_vars

\* C31: for a dataset made by fetch_repository_data, the records in the
\* prompt of the PR analyser are the first ten of the records the
\* orchestrator counts, so the list in the prompt is not empty when the
\* dataset holds a pull request (violated: the prompt reads 'pullRequests',
\* a key the fetch never writes)
C31_FetchedPrsInPrompt ==
    (pr_call.called /\ pr_call.dataset.origin = "fetch") =>
        /\ pr_call.counted = Len(pr_call.dataset.pull_requests)
        /\ \A i \in 1..Len(pr_call.embedded) :
              pr_call.embedded[i] = pr_call.dataset.pull_requests[i]
        /\ Len(pr_call.embedded) =
              (IF pr_call.counted <= PrsInPrompt THEN pr_call.counted ELSE PrsInPrompt)
        /\ pr_call.counted > 0 => pr_call.embedded # <<>>

(***************************************************************************)
(* Orchestrators and their runs over time.  Every agent of every run       *)
(* writes to a2a_protocol, the one log of the process.                     *)
(***************************************************************************)
MaxSecond == 2          \* latest second of the wall clock
MaxInstances == 2       \* most orchestrators made
MaxIsolatedRuns == 3    \* most runs started
MaxLogged == 3          \* most messages logged

\* f"orchestrator_{datetime.now().strftime('%Y%m%d_%H%M%S')}", the
\* date and time to the second
ConversationIdAt(second) == "orchestrator_" \o ToString(second)

\* the wall clock comes to its next second
Second ==
    /\ isolation.now < MaxSecond
    /\ isolation' = [isolation EXCEPT !.now = @ + 1]
    /\ UNCHANGED but_isolation

\* AssessmentOrchestrator(): the conversation id is made here, once
NewOrchestrator ==
    /\ Len(isolation.instances) < MaxInstances
    /\ isolation' = [isolation EXCEPT
                        !.instances = Append(@, ConversationIdAt(isolation.now))]
    /\ UNCHANGED but_isolation

\* generate_assessment is called on an orchestrator: a run starts
GenerateAssessment(instance) ==
    /\ Len(isolation.runs) < MaxIsolatedRuns
    /\ isolation' = [isolation EXCEPT !.runs = Append(@, instance)]
    /\ UNCHANGED but_isolation

\* the conversation id the agents of a run are given: self.conversation_id
ConversationOfRun(r) == isolation.instances[isolation.runs[r]]

\* an agent of a run sends its next notification; the data say whose it is
AgentNotifies(r) ==
    /\ Len(isolation.log.message_history) < MaxLogged
    /\ isolation' = [isolation EXCEPT
                        !.log = Notify(@, ConversationOfRun(r), "code_analyzer",
                                       "orchestrator", <<"run", r>>, "notification")]
    /\ UNCHANGED but_isolation

InitIsolation ==
    /\ IsolationIdle
    /\ PrIdle /\ WebIdle
    /\ A2AIdle /\ TwinIdle /\ AgentIdle /\ TimingIdle /\ EntryIdle /\ PromptIdle
    /\ RankIdle /\ TimedIdle /\ CreateIdle
    /\ response = <<>> /\ ExtractIdle
    /\ ValidateIdle
    /\ RunIdle

NextIsolation ==
    \/ Second
    \/ NewOrchestrator
    \/ \E instance \in DOMAIN isolation.instances : GenerateAssessment(instance)
    \/ \E r \in DOMAIN isolation.runs : AgentNotifies(r)

SpecIsolation == InitIsolation /\ [][NextIsolation]_vars

\* C33: two different runs never have the same conversation id, and the
\* messages read from the log by the conversation id of a run are all of
\* that run (violated: the id is made when the orchestrator is made, to the
\* second, so the runs of one orchestrator and the runs of orchestrators
\* made in the same second share it)
C33_RunsIsolatedInLog ==
    \A r \in DOMAIN isolation.runs :
        /\ \A q \in DOMAIN isolation.runs \ {r} :
               ConversationOfRun(q) # ConversationOfRun(r)
        /\ \A history \in {get_message_history(isolation.log, ConversationOfRun(r))} :
               \A i \in DOMAIN history : history[i].data = <<"run", r>>

\* C32: in a run that returned, the report given to the refinement call is
\* the report of the creation call with an improvement context added and
\* nothing else changed, and the report of the run was left as it was:
\* debug.analysis_report of the result has no improvement context and is
\* the report the creation call and the validator were given.
C32_ReportLeftUnchanged ==
    pc = "DONE" =>
        /\ TheCall("REFINING").report.improvement_context.given
        /\ [TheCall("REFINING").report EXCEPT !.improvement_context = NoContext]
             = TheCall("CREATING").report
        /\ ~final_result.debug.analysis_report.improvement_context.given
        /\ final_result.debug.analysis_report = TheCall("CREATING").report
        /\ final_result.debug.analysis_report = TheCall("VALIDATING").report
        /\ analysis_report = TheCall("CREATING").report

\* C32 witness: a run that returned a refined problem, made from a report
\* that holds what the analysers found
C32_Witness ==
    /\ pc = "DONE"
    /\ final_result.success
    /\ final_result.problem # TheCall("CREATING").output
    /\ TheCall("REFINING").mode = "refinement"
    /\ final_result.debug.analysis_report # NoReport

\* the messages of a sender in a history, each as its type and its status,
\* in their order
RECURSIVE SentBy(_, _)
SentBy(messages, sender_id) ==
    IF messages = <<>> THEN <<>>
    ELSE (IF Head(messages).sender_id = sender_id
          THEN <<<<Head(messages).message_type, Head(messages).data>>>> ELSE <<>>)
           \o SentBy(Tail(messages), sender_id)

\* C34: in the log of a run the messages of an analyser are, in this order,
\* its notification that it started, the notification of run that the
\* completion came back, and its response, each at most once and none
\* without the one before; the notification of run is there only when the
\* completion call returned, and the response only when, besides, an
\* object was decoded from the text.
C34_AnalyzerMessagesInOrder ==
    \A i \in DOMAIN twin : \A a \in Analyzers :
        \A own \in {SentBy(twin[i].log.message_history, a)} :
            /\ own \in {<<>>,
                         <<<<"notification", "started">>>>,
                         <<<<"notification", "started">>, <<"notification", "completed">>>>,
                         <<<<"notification", "started">>, <<"notification", "completed">>,
                           <<"response", "completed">>>>}
            /\ Len(own) >= 2 => ~twin[i].answers[a].raised
            /\ Len(own) = 3 =>
                  \A x \in {extract_json_from_response(twin[i].answers[a].text)} :
                      x.kind = "return" /\ IsDict(x.val) /\ Truthy(x.val)

\* C34 witness: a run in which one analyser logged its three messages,
\* another only the first because its completion call raised
C34_Witness ==
    /\ twin # <<>>
    /\ Len(SentBy(twin[1].log.message_history, "code_analyzer")) = 3
    /\ Len(SentBy(twin[1].log.message_history, "pr_analyzer")) = 1
    /\ twin[1].answers["pr_analyzer"].raised


(***************************************************************************)
(* The ranked suggestions of long lists: more titles than the report keeps *)
(***************************************************************************)
MaxSuggested == 12   \* most suggestions of the two analyses together

\* the title of the i-th suggestion of a list in which the suggestion at
\* untitled has no title (or an empty one) and the suggestion at again has
\* the title of the first in other letters' case; all others differ
TitleAt(i, untitled, again) ==
    IF i = untitled THEN ""
    ELSE IF i = again THEN "a"
    ELSE IF i = 1 THEN "A"
    ELSE "t" \o ToString(i)

InitRankMany ==
    /\ \E n \in 0..MaxSuggested :
       \E untitled \in 0..n, again \in 0..n, of_pr \in 0..n :
          /\ pr_suggested = [i \in 1..of_pr |-> Suggestion(TitleAt(i, untitled, again), i)]
          /\ issue_suggested =
                [i \in 1..(n - of_pr) |->
                    Suggestion(TitleAt(of_pr + i, untitled, again), of_pr + i)]
    /\ ranked_suggestions = <<>> /\ ranked_done = FALSE
    /\ response = <<>> /\ ExtractIdle
    /\ ValidateIdle
    /\ RunIdle
    /\ TimedIdle /\ CreateIdle /\ MoreIdle

SpecRankMany == InitRankMany /\ [][NextRank]_vars

\* the k-th place, in the order of the input, of FirstSeen
KthFirstSeen(k) == CHOOSE i \in FirstSeen : Cardinality({j \in FirstSeen : j < i}) = k - 1

\* C35: ranked_suggestions of the report holds at most ten entries, the
\* first ten first-seen titled suggestions of the two lists in the order of
\* the input (all of them when there are fewer); every entry has a title
\* that is not empty, and no suggestion without a title or with an empty
\* one is among them.
C35_TenTitledSuggestions ==
    ranked_done =>
        /\ Len(ranked_suggestions) <= 10
        /\ Len(ranked_suggestions) =
              (IF Cardinality(FirstSeen) <= 10 THEN Cardinality(FirstSeen) ELSE 10)
        /\ \A k \in 1..Len(ranked_suggestions) :
              /\ ranked_suggestions[k] = AllSuggested[KthFirstSeen(k)]
              /\ ranked_suggestions[k].title # ""
        /\ \A i \in 1..Len(AllSuggested) :
              AllSuggested[i].title = "" =>
                  \A k \in 1..Len(ranked_suggestions) : ranked_suggestions[k].at # i

\* C35 witness: more than ten first-seen titles, and a suggestion without a
\* title among the first ten of the input: ten entries are kept
C35_Witness ==
    /\ ranked_done
    /\ Cardinality(FirstSeen) > 10
    /\ \E i \in 1..10 : AllSuggested[i].title = ""
    /\ Len(ranked_suggestions) = 10
    /\ ranked_suggestions[10].at = 11

(***************************************************************************)
(* The web server.  Every start_generation request runs run_generation in  *)
(* a thread of its own (async_mode 'threading'); sys.stdout is one for the *)
(* process.  A stream is the original one or the TeeOutput of a session.   *)
(* Of the events only agent_log, generation_complete and error are kept.   *)
(***************************************************************************)
MaxSessions == 2   \* most clients that connect
MaxPrints == 1     \* most lines a run prints

\* request.sid of the clients
Sessions == {"s" \o ToString(i) : i \in 1..MaxSessions}

\* TeeOutput.write: the line is written to self.terminal first, which is
\* the original stream or the TeeOutput of another session, then emitted by
\* emit_log under the session id of this TeeOutput
RECURSIVE Write(_, _, _)
Write(stream, terminal, of) ==
    IF stream = OriginalStream THEN <<>>
    ELSE Append(Write(terminal[stream], terminal, of),
                [event |-> "agent_log", session_id |-> stream, of |-> of])

\* handle_connect
Connect(s) ==
    /\ s \notin DOMAIN web.pc
    /\ web' = [web EXCEPT !.connected = @ \cup {s},
                          !.pc = [t \in DOMAIN @ \cup {s} |-> IF t = s THEN "idle" ELSE @[t]],
                          !.printed = [t \in DOMAIN @ \cup {s} |-> IF t = s THEN 0 ELSE @[t]]]
    /\ UNCHANGED but_web

\* handle_disconnect: the session leaves active_sessions
Disconnect(s) ==
    /\ s \in web.connected
    /\ web' = [web EXCEPT
                  !.connected = @ \ {s},
                  !.active_sessions = [t \in DOMAIN @ \ {s} |-> @[t]]]
    /\ UNCHANGED but_web

\* handle_generation: the session is stored and the background task started
HandleGeneration(s) ==
    /\ s \in web.connected
    /\ web.pc[s] = "idle"
    /\ web' = [web EXCEPT
                  !.active_sessions =
                      [t \in DOMAIN @ \cup {s} |-> IF t = s THEN "running" ELSE @[t]],
                  !.pc[s] = "started"]
    /\ UNCHANGED but_web

\* run_generation: "old_stdout = sys.stdout"
SaveStdout(s) ==
    /\ s \in DOMAIN web.pc /\ web.pc[s] = "started"
    /\ web' = [web EXCEPT
                  !.old_stdout =
                      [t \in DOMAIN @ \cup {s} |-> IF t = s THEN web.stdout ELSE @[t]],
                  !.pc[s] = "saved"]
    /\ UNCHANGED but_web

\* "tee = TeeOutput(session_id); sys.stdout = tee", the terminal of the
\* TeeOutput being old_stdout
RedirectStdout(s) ==
    /\ s \in DOMAIN web.pc /\ web.pc[s] = "saved"
    /\ web' = [web EXCEPT
                  !.terminal =
                      [t \in DOMAIN @ \cup {s} |-> IF t = s THEN web.old_stdout[s] ELSE @[t]],
                  !.stdout = s,
                  !.pc[s] = "running"]
    /\ UNCHANGED but_web

\* the run prints a line (the orchestrator's print calls): it goes to what
\* sys.stdout is at that moment
PrintLine(s) ==
    /\ s \in DOMAIN web.pc /\ web.pc[s] = "running"
    /\ web.printed[s] < MaxPrints
    /\ web' = [web EXCEPT
                  !.printed[s] = @ + 1,
                  !.events = @ \o Write(web.stdout, web.terminal, s)]
    /\ UNCHANGED but_web

\* the fetch and the generation returned and the result was saved:
\* generation_complete is emitted
EmitComplete(s) ==
    /\ s \in DOMAIN web.pc /\ web.pc[s] = "running"
    /\ web' = [web EXCEPT
                  !.events = Append(@, [event |-> "generation_complete", session_id |-> s,
                                        of |-> s]),
                  !.pc[s] = "completed"]
    /\ UNCHANGED but_web

\* the except branch: error is emitted, and the session marked if it is there
OnException(w, s) ==
    [w EXCEPT
        !.events = Append(@, [event |-> "error", session_id |-> s, of |-> s]),
        !.active_sessions = [t \in DOMAIN @ |-> IF t = s THEN "error" ELSE @[t]],
        !.pc[s] = "finally"]

\* "active_sessions[session_id]['status'] = 'complete'", inside the try: a
\* KeyError when the session is gone
UpdateSession(s) ==
    /\ s \in DOMAIN web.pc /\ web.pc[s] = "completed"
    /\ web' = IF s \in DOMAIN web.active_sessions
              THEN [web EXCEPT !.active_sessions[s] = "complete", !.pc[s] = "finally"]
              ELSE OnException(web, s)
    /\ UNCHANGED but_web

\* the fetch, the generation or the saving of the result raised
GenerationRaises(s) ==
    /\ s \in DOMAIN web.pc /\ web.pc[s] = "running"
    /\ web' = OnException(web, s)
    /\ UNCHANGED but_web

\* finally: "sys.stdout = old_stdout"
RestoreStdout(s) ==
    /\ s \in DOMAIN web.pc /\ web.pc[s] = "finally"
    /\ web' = [web EXCEPT !.stdout = web.old_stdout[s], !.pc[s] = "done"]
    /\ UNCHANGED but_web

InitWeb ==
    /\ WebIdle
    /\ PrIdle /\ IsolationIdle
    /\ A2AIdle /\ TwinIdle /\ AgentIdle /\ TimingIdle /\ EntryIdle /\ PromptIdle
    /\ RankIdle /\ TimedIdle /\ CreateIdle
    /\ response = <<>> /\ ExtractIdle
    /\ ValidateIdle
    /\ RunIdle

NextWeb ==
    \E s \in Sessions :
        \/ Connect(s)
        \/ Disconnect(s)
        \/ HandleGeneration(s)
        \/ SaveStdout(s)
        \/ RedirectStdout(s)
        \/ PrintLine(s)
        \/ EmitComplete(s)
        \/ UpdateSession(s)
        \/ GenerationRaises(s)
        \/ RestoreStdout(s)

SpecWeb == InitWeb /\ [][NextWeb]_vars

\* C36: every agent_log event carries the session id of the run whose
\* output it is (violated: with two runs under way the line of one run goes
\* through the TeeOutput of the other)
C36_LogUnderOwnSession ==
    \A i \in DOMAIN web.events :
        web.events[i].event = "agent_log" => web.events[i].session_id = web.events[i].of

\* C37: when no run_generation is under way, sys.stdout is the original
\* stream (violated: a run that started second and ends last restores the
\* TeeOutput of the first)
C37_StdoutRestored ==
    (\A s \in DOMAIN web.pc : web.pc[s] \in {"idle", "done"}) => web.stdout = OriginalStream

\* the terminal events emitted for a session
TerminalEvents(s) ==
    {i \in DOMAIN web.events :
        /\ web.events[i].session_id = s
        /\ web.events[i].event \in {"generation_complete", "error"}}

\* C38: a run emits one terminal event, generation_complete or error, and
\* has emitted exactly one when it is over (violated: after a disconnect the
\* update of the session raises KeyError behind generation_complete, and
\* error is emitted as well)
C38_OneTerminalEvent ==
    \A s \in DOMAIN web.pc :
        /\ Cardinality(TerminalEvents(s)) <= 1
        /\ web.pc[s] = "done" => Cardinality(TerminalEvents(s)) = 1

=============================================================================
